---- MODULE Spec2Model ----
(***************************************************************************)
(* Backtest engine and optimizer of                                        *)
(* backend/app/services/trading_strategies/strategy.py.                    *)
(*                                                                         *)
(* Conventions.                                                            *)
(*  - Python positions are 0-based, sequences here are 1-based: the row    *)
(*    df.iloc[i] of the source is df[i + 1] here, and the loop             *)
(*    range(ma_period + 1, len(df)) runs here from ma_period + 2 to        *)
(*    Len(df).                                                             *)
(*  - Numbers computed by the engine are exact rationals <<n, d>> in       *)
(*    lowest terms with d > 0; <<0, 0>> is NaN, <<1, 0>> is +inf and       *)
(*    <<-1, 0>> is -inf.  Rounding of binary floating point is not         *)
(*    modelled.                                                            *)
(*  - A Python dict is a sequence of <<key, value>> pairs in insertion     *)
(*    order; a parameter name such as "SMA_20_period" is the sequence of   *)
(*    its underscore-separated parts <<"SMA", "20", "period">>.            *)
(***************************************************************************)
EXTENDS Integers, Sequences, FiniteSets, TLC

(***************************************************************************)
(* Bounds of the model.                                                    *)
(***************************************************************************)
WarmBars == 6
FreeBars == 4
MaxCalls == 3
MaxRaw == 2

(***************************************************************************)
(* State.                                                                  *)
(*   strategy, data, param_ranges   the caller's arguments                 *)
(*   given                          the arguments as they were passed      *)
(*   pc                             position in the running function       *)
(*   df, ma_period, i, position, entry_price, stop_loss, take_profit       *)
(*                                  locals of backtest_strategy            *)
(*   results                        value returned by backtest_strategy    *)
(*   calls                          the completed backtest calls           *)
(*   combo, strategy_copy, backtest_result, best_result                    *)
(*                                  locals of optimize_strategy; combo is  *)
(*                                  the position of the generator          *)
(*   tested                         the backtests optimize_strategy ran    *)
(*   optimized                      value returned by optimize_strategy    *)
(*   patterns, indicators           the arguments of create_strategy       *)
(*   now                            the clock datetime.now() reads         *)
(*   created                        value returned by create_strategy, or  *)
(*                                  the exception it raised                *)
(*   builds                         the completed create_strategy calls    *)
(*   verdict                        value returned by validate_strategy    *)
(*   period                         the period passed to calculate_sma     *)
(*   sma                            value returned by calculate_sma        *)
(*   found                          value returned by identify_patterns,   *)
(*                                  or the exception it raised             *)
(*   valid                          value returned by validate_data        *)
(***************************************************************************)
VARIABLES strategy, data, param_ranges, given, pc,
          df, ma_period, i, position, entry_price, stop_loss, take_profit,
          results, calls,
          combo, strategy_copy, backtest_result, best_result, tested, optimized,
          patterns, indicators, now, created, builds, verdict,
          period, sma, found, valid,
          func, args, error_class, outcome, log

vars == <<strategy, data, param_ranges, given, pc,
          df, ma_period, i, position, entry_price, stop_loss, take_profit,
          results, calls,
          combo, strategy_copy, backtest_result, best_result, tested, optimized,
          patterns, indicators, now, created, builds, verdict,
          period, sma, found, valid,
          func, args, error_class, outcome, log>>

inputVars == <<strategy, data, param_ranges, given>>
engineVars == <<df, ma_period, i, position, entry_price, stop_loss, take_profit>>
optimizerVars == <<combo, strategy_copy, backtest_result, best_result, tested, optimized>>
builderVars == <<patterns, indicators, now, created, builds, verdict>>
guardVars == <<func, args, error_class, outcome, log>>
libraryVars == <<period, sma, found, valid, guardVars>>

(***************************************************************************)
(* Exact rational arithmetic.                                              *)
(***************************************************************************)
Abs(x) == IF x < 0 THEN -x ELSE x

RECURSIVE GCD(_, _)
GCD(a, b) == IF b = 0 THEN a ELSE GCD(b, a % b)

Sign(x) == IF x > 0 THEN 1 ELSE IF x < 0 THEN -1 ELSE 0

NaN == <<0, 0>>
Inf == <<1, 0>>
NegInf == <<-1, 0>>

Norm(n, d) ==
    IF d = 0 THEN <<Sign(n), 0>>
    ELSE LET g == GCD(Abs(n), Abs(d))
             s == IF d < 0 THEN -1 ELSE 1
         IN  <<s * (n \div g), s * (d \div g)>>

R(x) == <<x, 1>>

IsNaN(x) == x = NaN
NotNa(x) == x # NaN
IsFinite(x) == x[2] # 0

LCM(a, b) == (a \div GCD(a, b)) * b

\* numerators of x and y over their common denominator
OnCommon(x, y) ==
    LET l == LCM(x[2], y[2])
    IN  <<x[1] * (l \div x[2]), y[1] * (l \div y[2]), l>>

RAdd(x, y) ==
    IF IsNaN(x) \/ IsNaN(y) THEN NaN
    ELSE IF ~IsFinite(x) /\ ~IsFinite(y) THEN (IF x = y THEN x ELSE NaN)
    ELSE IF ~IsFinite(x) THEN x
    ELSE IF ~IsFinite(y) THEN y
    ELSE LET c == OnCommon(x, y) IN Norm(c[1] + c[2], c[3])

RNeg(x) == <<-x[1], x[2]>>

RSub(x, y) == RAdd(x, RNeg(y))

RMul(x, y) ==
    IF IsNaN(x) \/ IsNaN(y) THEN NaN
    ELSE IF ~IsFinite(x) \/ ~IsFinite(y)
         THEN <<Sign(x[1]) * Sign(y[1]), 0>>
    ELSE LET a == Norm(x[1], y[2])
             b == Norm(y[1], x[2])
         IN  Norm(a[1] * b[1], a[2] * b[2])

\* numpy division: x / 0 is +-inf, 0 / 0 is NaN
RDiv(x, y) ==
    IF IsNaN(x) \/ IsNaN(y) THEN NaN
    ELSE IF ~IsFinite(y) THEN (IF IsFinite(x) THEN R(0) ELSE NaN)
    ELSE IF y[1] = 0 THEN <<Sign(x[1]), 0>>
    ELSE IF ~IsFinite(x) THEN <<Sign(x[1]) * Sign(y[1]), 0>>
    ELSE RMul(x, Norm(y[2], y[1]))

\* comparisons; every comparison with NaN is false
RLt(x, y) ==
    IF IsNaN(x) \/ IsNaN(y) THEN FALSE
    ELSE IF ~IsFinite(x) \/ ~IsFinite(y)
         THEN (IF ~IsFinite(x) /\ ~IsFinite(y) THEN x[1] < y[1]
               ELSE IF ~IsFinite(x) THEN x[1] < 0
               ELSE y[1] > 0)
    ELSE LET c == OnCommon(x, y) IN c[1] < c[2]

RGt(x, y) == RLt(y, x)
RLe(x, y) == ~IsNaN(x) /\ ~IsNaN(y) /\ ~RLt(y, x)
RGe(x, y) == RLe(y, x)

RAbs(x) == <<Abs(x[1]), x[2]>>

(***************************************************************************)
(* Inputs: OHLCV series.  A series is WarmBars - 1 steady bars, one dip    *)
(* bar, and then up to FreeBars bars of the shapes below; shorter series   *)
(* are the leading bars of that run-in.  Bar times are the bar positions,  *)
(* so they are unique and strictly increasing; every bar satisfies         *)
(* low <= open, close <= high.                                             *)
(***************************************************************************)
MinBars == 10

Shape(c, l, h) == [close |-> c, low |-> l, high |-> h]

Steady == Shape(12, 12, 12)
Dip == Shape(8, 8, 8)

Shapes == {Dip, Steady, Shape(8, 4, 8), Shape(12, 12, 18), Shape(12, 4, 18)}

Bar(t, sh) ==
    [time |-> t, open |-> sh.close, high |-> sh.high, low |-> sh.low,
     close |-> sh.close]

MkSeries(w, tail) ==
    [k \in 1..(w + Len(tail)) |->
        IF k < WarmBars THEN Bar(k, Steady)
        ELSE IF k = WarmBars THEN Bar(k, Dip)
        ELSE Bar(k, tail[k - w])]

Tails(S, f) == [1..f -> S]

SeriesOver(S) ==
    {MkSeries(k, <<>>) : k \in 0..(WarmBars - 1)}
    \cup UNION {{MkSeries(WarmBars, t) : t \in Tails(S, f)} : f \in 0..FreeBars}

\* a series whose close dips at its second bar and again at its sixth
EarlyFlip ==
    [k \in 1..MinBars |-> Bar(k, IF k \in {2, 6} THEN Dip ELSE Steady)]

\* a series that rises after a dip and falls back to where it rose from
Breakeven ==
    LET closes == <<12, 12, 8, 12, 15, 12, 12, 12, 12, 12>>
    IN  [k \in 1..MinBars |-> Bar(k, Shape(closes[k], closes[k], closes[k]))]

\* a series with a fall of 30% from a low capital and, after a gain, one
\* of 25% from a higher capital
TwoFalls ==
    LET closes == <<20, 20, 16, 20, 14, 7, 8, 6, 6, 6>>
    IN  [k \in 1..MinBars |-> Bar(k, Shape(closes[k], closes[k], closes[k]))]

OHLCVSeries == SeriesOver(Shapes) \cup {EarlyFlip, Breakeven, TwoFalls}

(***************************************************************************)
(* Inputs: strategies.                                                     *)
(***************************************************************************)
SMA_20_period == <<"SMA", "20", "period">>
EMA_10_period == <<"EMA", "10", "period">>
RSI_14_period == <<"RSI", "14", "period">>
SMA_20_note == <<"SMA", "20", "note">>

Risk(sl, tp) ==
    [stop_loss_percent |-> sl, take_profit_percent |-> tp,
     max_position_size_percent |-> 5]

MkStrategy(nm, params, risk) ==
    [name |-> <<nm>>,
     description |-> "Strategy based on technical indicators and chart patterns",
     entry_rules |-> <<"buy when price crosses above the average">>,
     exit_rules |-> <<"sell when price crosses below the average">>,
     risk_management |-> risk,
     parameters |-> params]

NoMaStrategies ==
    {MkStrategy("plain", <<>>, Risk(50, 50)),
     MkStrategy("rsi", <<<<SMA_20_note, 2>>, <<RSI_14_period, 3>>>>, Risk(25, 50))}

MaStrategies ==
    {MkStrategy("sma", <<<<SMA_20_period, 2>>>>, Risk(50, 50)),
     MkStrategy("ema first",
                <<<<RSI_14_period, 2>>, <<EMA_10_period, 3>>, <<SMA_20_period, 2>>>>,
                Risk(25, 50)),
     MkStrategy("zero", <<<<SMA_20_period, 0>>>>, Risk(50, 50)),
     MkStrategy("wide stop", <<<<SMA_20_period, 2>>>>, Risk(100, 50))}

Strategies == NoMaStrategies \cup MaStrategies

(***************************************************************************)
(* Python dict helpers on sequences of <<key, value>> pairs.               *)
(***************************************************************************)
Keys(d) == {d[k][1] : k \in 1..Len(d)}

Get(d, key) == (CHOOSE k \in 1..Len(d) : d[k][1] = key) \* requires the key
        
Lookup(d, key) == d[Get(d, key)][2]

\* d[key] = value: an existing key keeps its place, a new key goes last
SetItem(d, key, value) ==
    IF key \in Keys(d)
    THEN [k \in 1..Len(d) |-> IF d[k][1] = key THEN <<key, value>> ELSE d[k]]
    ELSE Append(d, <<key, value>>)

\* {**a, **b}
RECURSIVE DictMerge(_, _)
DictMerge(a, b) ==
    IF b = <<>> THEN a
    ELSE DictMerge(SetItem(a, b[1][1], b[1][2]), Tail(b))

StartsWith(name, prefix) == Len(name) >= 2 /\ name[1] = prefix
EndsWith(name, suffix) == Len(name) >= 2 /\ name[Len(name)] = suffix

(***************************************************************************)
(* backtest_strategy: the frame and the signal.                            *)
(***************************************************************************)
None == -1

Truthy(x) == x # None /\ x # 0

\* datetime.fromtimestamp(t).isoformat()
IsoFormat(t) == <<"iso", t>>

\* pd.DataFrame(data) indexed by time: a new table holding the bars' values
ConvertToDataframe(d) ==
    [k \in 1..Len(d) |->
        [time |-> d[k].time, open |-> d[k].open, high |-> d[k].high,
         low |-> d[k].low, close |-> d[k].close]]

\* the columns position .. trade_result; ma and signal, which the source
\* adds only when there is a period, are NaN and 0 until then
PrepareFrame(f) ==
    [k \in 1..Len(f) |->
        [time |-> f[k].time, open |-> f[k].open, high |-> f[k].high,
         low |-> f[k].low, close |-> f[k].close,
         position |-> 0, entry_price |-> NaN, exit_price |-> NaN,
         stop_loss |-> NaN, take_profit |-> NaN, trade_result |-> NaN,
         ma |-> NaN, signal |-> 0]]

\* variant: the suffix test of line 315 left out
IsMaName(name) == StartsWith(name, "SMA") \/ StartsWith(name, "EMA")

IsMaPeriodName(name) ==
    /\ StartsWith(name, "SMA") \/ StartsWith(name, "EMA")
    /\ EndsWith(name, "period")

\* variant: the last moving-average period of the parameters, not the first
FindLastMaPeriod(params) ==
    LET hits == {k \in 1..Len(params) : IsMaPeriodName(params[k][1])}
    IN  IF hits = {} THEN None
        ELSE params[CHOOSE k \in hits : \A j \in hits : k >= j][2]

FindMaPeriod(params) ==
    LET hits == {k \in 1..Len(params) : IsMaPeriodName(params[k][1])}
    IN  IF hits = {} THEN None
        ELSE params[CHOOSE k \in hits : \A j \in hits : k <= j][2]

RECURSIVE SumClose(_, _, _)
SumClose(f, lo, hi) ==
    IF lo > hi THEN 0 ELSE f[lo].close + SumClose(f, lo + 1, hi)

\* df['close'].rolling(window=p).mean() at row k
RollingMean(f, p, k) ==
    IF k < p THEN NaN ELSE Norm(SumClose(f, k - p + 1, k), p)

SignalOf(c, m) ==
    IF RGt(R(c), m) THEN 1 ELSE IF RLt(R(c), m) THEN -1 ELSE 0

WithSignals(f, p) ==
    [k \in 1..Len(f) |->
        LET m == RollingMean(f, p, k)
        IN  [f[k] EXCEPT !.ma = m, !.signal = SignalOf(f[k].close, m)]]

(***************************************************************************)
(* backtest_strategy: one bar of the simulation loop.  e is the record of  *)
(* the loop's locals and the frame, k the row being processed.             *)
(***************************************************************************)
LongResult(exit, entry) == RMul(RSub(RDiv(exit, entry), R(1)), R(100))
ShortResult(exit, entry) == RMul(RSub(RDiv(entry, exit), R(1)), R(100))

\* variant: the stop computed from take_profit_percent
LongStopFromTarget(entry, risk) ==
    RMul(entry, RSub(R(1), RDiv(R(risk.take_profit_percent), R(100))))

LongStop(entry, risk) ==
    RMul(entry, RSub(R(1), RDiv(R(risk.stop_loss_percent), R(100))))
LongTarget(entry, risk) ==
    RMul(entry, RAdd(R(1), RDiv(R(risk.take_profit_percent), R(100))))
ShortStop(entry, risk) ==
    RMul(entry, RAdd(R(1), RDiv(R(risk.stop_loss_percent), R(100))))
ShortTarget(entry, risk) ==
    RMul(entry, RSub(R(1), RDiv(R(risk.take_profit_percent), R(100))))

CloseAt(e, k, exit, result) ==
    [e EXCEPT !.position = 0,
              !.df[k].position = 0,
              !.df[k].exit_price = exit,
              !.df[k].trade_result = result]

\* variant: a stopped long closed at the bar's low
LongExitAtLow(e, k) ==
    IF RLe(R(e.df[k].low), e.stop_loss)
    THEN CloseAt(e, k, R(e.df[k].low), LongResult(R(e.df[k].low), e.entry_price))
    ELSE IF RGe(R(e.df[k].high), e.take_profit)
    THEN CloseAt(e, k, e.take_profit, LongResult(e.take_profit, e.entry_price))
    ELSE IF e.df[k].signal = -1 /\ e.df[k - 1].signal = 1
    THEN CloseAt(e, k, R(e.df[k].close), LongResult(R(e.df[k].close), e.entry_price))
    ELSE e

\* variant: the target tested before the stop
LongExitTargetFirst(e, k) ==
    IF RGe(R(e.df[k].high), e.take_profit)
    THEN CloseAt(e, k, e.take_profit, LongResult(e.take_profit, e.entry_price))
    ELSE IF RLe(R(e.df[k].low), e.stop_loss)
    THEN CloseAt(e, k, e.stop_loss, LongResult(e.stop_loss, e.entry_price))
    ELSE IF e.df[k].signal = -1 /\ e.df[k - 1].signal = 1
    THEN CloseAt(e, k, R(e.df[k].close), LongResult(R(e.df[k].close), e.entry_price))
    ELSE e

LongExit(e, k) ==
    IF RLe(R(e.df[k].low), e.stop_loss)
    THEN CloseAt(e, k, e.stop_loss, LongResult(e.stop_loss, e.entry_price))
    ELSE IF RGe(R(e.df[k].high), e.take_profit)
    THEN CloseAt(e, k, e.take_profit, LongResult(e.take_profit, e.entry_price))
    ELSE IF e.df[k].signal = -1 /\ e.df[k - 1].signal = 1
    THEN CloseAt(e, k, R(e.df[k].close), LongResult(R(e.df[k].close), e.entry_price))
    ELSE e

ShortExit(e, k) ==
    IF RGe(R(e.df[k].high), e.stop_loss)
    THEN CloseAt(e, k, e.stop_loss, ShortResult(e.stop_loss, e.entry_price))
    ELSE IF RLe(R(e.df[k].low), e.take_profit)
    THEN CloseAt(e, k, e.take_profit, ShortResult(e.take_profit, e.entry_price))
    ELSE IF e.df[k].signal = 1 /\ e.df[k - 1].signal = -1
    THEN CloseAt(e, k, R(e.df[k].close), ShortResult(R(e.df[k].close), e.entry_price))
    ELSE e

ExitStep(e, k) ==
    IF e.position = 1 THEN LongExit(e, k)
    ELSE IF e.position = -1 THEN ShortExit(e, k)
    ELSE e

OpenAt(e, k, pos, entry, stop, target) ==
    [e EXCEPT !.position = pos,
              !.entry_price = entry,
              !.stop_loss = stop,
              !.take_profit = target,
              !.df[k].position = pos,
              !.df[k].entry_price = entry,
              !.df[k].stop_loss = stop,
              !.df[k].take_profit = target]

\* variant: an entry on the current signal alone
EntryStepNoFlip(e, k, risk) ==
    IF e.position # 0 THEN e
    ELSE IF e.df[k].signal = 1
    THEN OpenAt(e, k, 1, R(e.df[k].close),
                LongStop(R(e.df[k].close), risk), LongTarget(R(e.df[k].close), risk))
    ELSE IF e.df[k].signal = -1
    THEN OpenAt(e, k, -1, R(e.df[k].close),
                ShortStop(R(e.df[k].close), risk), ShortTarget(R(e.df[k].close), risk))
    ELSE e

\* variant: the entry test of line 377 left out
EntryStepUnguarded(e, k, risk) ==
    IF e.df[k].signal = 1 /\ e.df[k - 1].signal = -1
    THEN OpenAt(e, k, 1, R(e.df[k].close),
                LongStop(R(e.df[k].close), risk), LongTarget(R(e.df[k].close), risk))
    ELSE IF e.df[k].signal = -1 /\ e.df[k - 1].signal = 1
    THEN OpenAt(e, k, -1, R(e.df[k].close),
                ShortStop(R(e.df[k].close), risk), ShortTarget(R(e.df[k].close), risk))
    ELSE e

EntryStep(e, k, risk) ==
    IF e.position # 0 THEN e
    ELSE IF e.df[k].signal = 1 /\ e.df[k - 1].signal = -1
    THEN OpenAt(e, k, 1, R(e.df[k].close),
                LongStop(R(e.df[k].close), risk), LongTarget(R(e.df[k].close), risk))
    ELSE IF e.df[k].signal = -1 /\ e.df[k - 1].signal = 1
    THEN OpenAt(e, k, -1, R(e.df[k].close),
                ShortStop(R(e.df[k].close), risk), ShortTarget(R(e.df[k].close), risk))
    ELSE e

BarStep(e, k, risk) == EntryStep(ExitStep(e, k), k, risk)

(***************************************************************************)
(* backtest_strategy: performance metrics.                                 *)
(***************************************************************************)
InitialCapital == 10000

InsufficientBacktest ==
    [success |-> FALSE, error |-> <<"Insufficient data for backtesting">>]

InitialResults(s, f) ==
    [strategy_name |-> s.name,
     start_date |-> IsoFormat(f[1].time),
     end_date |-> IsoFormat(f[Len(f)].time),
     initial_capital |-> R(InitialCapital),
     final_capital |-> R(InitialCapital),
     total_trades |-> 0,
     winning_trades |-> 0,
     losing_trades |-> 0,
     win_rate |-> R(0),
     profit_factor |-> R(0),
     max_drawdown |-> R(0),
     max_drawdown_percent |-> R(0),
     trades |-> <<>>]

\* variant: the rows that open a position taken for trades as well
IsTradeOrEntryRow(r) == NotNa(r.trade_result) \/ NotNa(r.entry_price)

IsTradeRow(r) == NotNa(r.trade_result)
IsWin(r) == RGt(r.trade_result, R(0))
IsLoss(r) == RLe(r.trade_result, R(0))

TradeRows(f) == SelectSeq(f, IsTradeRow)

RECURSIVE SumResults(_)
SumResults(rows) ==
    IF rows = <<>> THEN R(0)
    ELSE RAdd(rows[1].trade_result, SumResults(Tail(rows)))

\* variant: every trade's profit taken on the initial capital
RECURSIVE EquityAfterOnInitial(_, _)
EquityAfterOnInitial(equity, rows) ==
    IF rows = <<>> THEN <<>>
    ELSE LET trade_profit == RDiv(RMul(R(InitialCapital), rows[1].trade_result), R(100))
             next == RAdd(equity, trade_profit)
         IN  <<next>> \o EquityAfterOnInitial(next, Tail(rows))

RECURSIVE EquityAfter(_, _)
EquityAfter(equity, rows) ==
    IF rows = <<>> THEN <<>>
    ELSE LET trade_profit == RDiv(RMul(equity, rows[1].trade_result), R(100))
             next == RAdd(equity, trade_profit)
         IN  <<next>> \o EquityAfter(next, Tail(rows))

EquityCurve(rows) == <<R(InitialCapital)>> \o EquityAfter(R(InitialCapital), rows)

\* the drawdown loop from position k of the curve on; d holds peak,
\* drawdown and drawdown_percent
RECURSIVE DrawdownScan(_, _, _)
DrawdownScan(curve, k, d) ==
    IF k > Len(curve) THEN d
    ELSE LET peak == IF RGt(curve[k], d.peak) THEN curve[k] ELSE d.peak
             current_drawdown == RSub(peak, curve[k])
             current_drawdown_percent == RMul(RDiv(current_drawdown, peak), R(100))
         IN  DrawdownScan(curve, k + 1,
                 IF RGt(current_drawdown, d.drawdown)
                 THEN [peak |-> peak, drawdown |-> current_drawdown,
                       drawdown_percent |-> current_drawdown_percent]
                 ELSE [d EXCEPT !.peak = peak])

TradeData(row) ==
    [entry_time |-> IsoFormat(row.time),
     exit_time |-> IsoFormat(row.time),
     position |-> IF row.position = 1 THEN "long" ELSE "short",
     entry_price |-> row.entry_price,
     exit_price |-> row.exit_price,
     profit_loss |-> row.trade_result,
     profit_loss_percent |-> row.trade_result]

Metrics(s, f) ==
    LET rows == TradeRows(f)
        wins == SelectSeq(rows, IsWin)
        losses == SelectSeq(rows, IsLoss)
        total_profit == SumResults(wins)
        total_loss == RAbs(SumResults(losses))
        curve == EquityCurve(rows)
        d == DrawdownScan(curve, 1,
                 [peak |-> curve[1], drawdown |-> R(0), drawdown_percent |-> R(0)])
    IN  IF Len(rows) > 0
        THEN [InitialResults(s, f) EXCEPT
                 !.total_trades = Len(rows),
                 !.winning_trades = Len(wins),
                 !.losing_trades = Len(losses),
                 !.win_rate = Norm(Len(wins), Len(rows)),
                 !.profit_factor = IF RGt(total_loss, R(0))
                                   THEN RDiv(total_profit, total_loss) ELSE Inf,
                 !.max_drawdown = d.drawdown,
                 !.max_drawdown_percent = d.drawdown_percent,
                 !.final_capital = curve[Len(curve)],
                 !.trades = [k \in 1..Len(rows) |-> TradeData(rows[k])]]
        ELSE InitialResults(s, f)

(***************************************************************************)
(* backtest_strategy as one function, for the callers that use its value.  *)
(***************************************************************************)
\* variant: the loop's locals kept from the previous call
LocalsCarried(f) ==
    [position |-> position, entry_price |-> entry_price, stop_loss |-> stop_loss,
     take_profit |-> take_profit, df |-> f]

\* lines 329-332
Locals(f) ==
    [position |-> 0, entry_price |-> R(0), stop_loss |-> R(0),
     take_profit |-> R(0), df |-> f]

RECURSIVE RunLoop(_, _, _)
RunLoop(e, k, risk) ==
    IF k > Len(e.df) THEN e ELSE RunLoop(BarStep(e, k, risk), k + 1, risk)

\* variant: off by one in the length test
TooShortOrEqual(d) == d = <<>> \/ Len(d) <= MinBars

TooShort(d) == d = <<>> \/ Len(d) < MinBars

BacktestStrategy(s, d) ==
    IF TooShort(d) THEN InsufficientBacktest
    ELSE LET f == PrepareFrame(ConvertToDataframe(d))
             p == FindMaPeriod(s.parameters)
         IN  IF Truthy(p)
             THEN Metrics(s, RunLoop(Locals(WithSignals(f, p)), p + 2,
                                     s.risk_management).df)
             ELSE Metrics(s, f)

(***************************************************************************)
(* backtest_strategy as a state machine: one step per bar of the loop.     *)
(***************************************************************************)
NoneValue == [none |-> TRUE]

NoBest ==
    [strategy |-> NoneValue, backtest_result |-> NoneValue,
     performance_score |-> NegInf]

EngineIdle ==
    /\ df = <<>>
    /\ ma_period = None
    /\ i = 0
    /\ position = 0
    /\ entry_price = R(0)
    /\ stop_loss = R(0)
    /\ take_profit = R(0)
    /\ results = NoneValue

OptimizerIdle ==
    /\ combo = 0
    /\ strategy_copy = NoneValue
    /\ backtest_result = NoneValue
    /\ best_result = NoBest
    /\ tested = <<>>
    /\ optimized = NoneValue

BuilderIdle ==
    /\ patterns = <<>>
    /\ indicators = <<>>
    /\ now = 0
    /\ created = NoneValue
    /\ builds = <<>>
    /\ verdict = NoneValue

GuardIdle ==
    /\ func = NoneValue
    /\ args = <<>>
    /\ error_class = NoneValue
    /\ outcome = NoneValue
    /\ log = <<>>

LibraryIdle ==
    /\ period = 0
    /\ sma = NoneValue
    /\ found = NoneValue
    /\ valid = NoneValue
    /\ GuardIdle

Init ==
    /\ strategy \in Strategies
    /\ data \in OHLCVSeries
    /\ param_ranges = <<>>
    /\ given = [strategy |-> strategy, data |-> data, param_ranges |-> param_ranges]
    /\ pc = "idle"
    /\ calls = <<>>
    /\ EngineIdle
    /\ OptimizerIdle
    /\ BuilderIdle
    /\ LibraryIdle

\* lines 272-276: the early return
BacktestReject ==
    /\ pc = "idle"
    /\ TooShort(data)
    /\ results' = InsufficientBacktest
    /\ pc' = "done"
    /\ UNCHANGED <<builderVars, libraryVars, inputVars, engineVars, calls, optimizerVars>>

\* lines 278-332: the frame, the period, the signal and the loop's locals
BacktestBegin ==
    /\ pc = "idle"
    /\ ~TooShort(data)
    /\ LET f == PrepareFrame(ConvertToDataframe(data))
           p == FindMaPeriod(strategy.parameters)
       IN  /\ ma_period' = p
           /\ results' = InitialResults(strategy, f)
           /\ IF Truthy(p)
              THEN /\ df' = WithSignals(f, p)
                   /\ position' = Locals(df').position
                   /\ entry_price' = Locals(df').entry_price
                   /\ stop_loss' = Locals(df').stop_loss
                   /\ take_profit' = Locals(df').take_profit
                   /\ i' = p + 2
                   /\ pc' = "loop"
              ELSE /\ df' = f
                   /\ UNCHANGED <<position, entry_price, stop_loss, take_profit, i>>
                   /\ pc' = "metrics"
    /\ UNCHANGED <<builderVars, libraryVars, inputVars, calls, optimizerVars>>

\* lines 334-400: one iteration of the loop
BacktestBar ==
    /\ pc = "loop"
    /\ i <= Len(df)
    /\ \E e \in {BarStep([position |-> position, entry_price |-> entry_price,
                          stop_loss |-> stop_loss, take_profit |-> take_profit,
                          df |-> df], i, strategy.risk_management)} :
          /\ position' = e.position
          /\ entry_price' = e.entry_price
          /\ stop_loss' = e.stop_loss
          /\ take_profit' = e.take_profit
          /\ df' = e.df
    /\ i' = i + 1
    /\ UNCHANGED <<builderVars, libraryVars, inputVars, pc, ma_period, results, calls, optimizerVars>>

\* lines 402-460: the metrics and the return
BacktestFinish ==
    /\ \/ pc = "loop" /\ i > Len(df)
       \/ pc = "metrics"
    /\ results' = Metrics(strategy, df)
    /\ pc' = "done"
    /\ UNCHANGED <<builderVars, libraryVars, inputVars, engineVars, calls, optimizerVars>>

Next ==
    \/ BacktestReject
    \/ BacktestBegin
    \/ BacktestBar
    \/ BacktestFinish

Spec == Init /\ [][Next]_vars

(***************************************************************************)
(* Properties of backtest_strategy.                                        *)
(***************************************************************************)
\* the step just taken processed bar i
BarProcessed == pc = "loop" /\ i' = i + 1

\* that step opened a position at bar i / closed one at bar i
OpenedAtBar == NotNa(df'[i].entry_price)
ClosedAtBar == NotNa(df'[i].trade_result)

IsBacktestResult(r) ==
    /\ "success" \notin DOMAIN r
    /\ {"total_trades", "final_capital", "trades"} \subseteq DOMAIN r

\* C1: the engine holds at most one position at a time: after every bar the
\* position is flat (0), long (1) or short (-1); a position is opened at a
\* bar only if the engine was flat when the entry test ran (flat before the
\* bar, or closed earlier in the same bar), and a position is closed only
\* if one was open.
C1_SinglePosition ==
    [][BarProcessed =>
        /\ position' \in {-1, 0, 1}
        /\ ClosedAtBar => position # 0
        /\ OpenedAtBar => (position = 0 \/ ClosedAtBar)
        /\ OpenedAtBar => (position' # 0 /\ position' = df'[i].position)
        /\ (ClosedAtBar /\ ~OpenedAtBar) => position' = 0
        /\ (~ClosedAtBar /\ ~OpenedAtBar) => position' = position]_vars

\* C1 witness: a long position was closed by a signal flip and a short one
\* opened at the same bar
C1_Witness ==
    /\ pc = "loop"
    /\ position = -1
    /\ \E k \in 1..Len(df) :
          /\ NotNa(df[k].trade_result)
          /\ NotNa(df[k].entry_price)
          /\ df[k].position = -1

\* C2: a series of fewer than 10 bars (the empty one included) gets the
\* insufficient-data outcome and nothing is simulated; a series of 10 or
\* more bars gets a Backtest Result.
C2_InsufficientData ==
    pc = "done" =>
        /\ Len(data) < 10 =>
              /\ results = [success |-> FALSE,
                            error |-> <<"Insufficient data for backtesting">>]
              /\ df = <<>>
              /\ i = 0
        /\ Len(data) >= 10 =>
              /\ IsBacktestResult(results)
              /\ Len(df) = Len(data)

\* C2 witness: a series of 9 bars was rejected
C2_Witness ==
    /\ pc = "done"
    /\ Len(data) = 9
    /\ "error" \in DOMAIN results

HasMaPeriodKey(params) ==
    \E k \in 1..Len(params) :
        LET name == params[k][1]
        IN  /\ Len(name) >= 2
            /\ name[1] \in {"SMA", "EMA"}
            /\ name[Len(name)] = "period"

\* C3: a strategy without a moving-average period parameter, on a series of
\* at least 10 bars, yields a result with no trades and the initial capital.
C3_NoPeriodNoTrades ==
    (pc = "done" /\ Len(data) >= 10 /\ ~HasMaPeriodKey(strategy.parameters)) =>
        /\ IsBacktestResult(results)
        /\ results.total_trades = 0
        /\ results.trades = <<>>
        /\ results.final_capital = results.initial_capital

\* C3 witness: such a strategy, with other parameters, has been backtested
\* on a series on which a strategy with a period trades
C3_Witness ==
    /\ pc = "done"
    /\ Len(data) >= 10
    /\ strategy.parameters # <<>>
    /\ ~HasMaPeriodKey(strategy.parameters)
    /\ BacktestStrategy(MkStrategy("sma", <<<<SMA_20_period, 2>>>>, Risk(50, 50)),
                        data).total_trades > 0

\* the bar at which the position held before bar i was opened
EntryBar ==
    CHOOSE j \in 1..(i - 1) :
        /\ NotNa(df[j].entry_price)
        /\ \A m \in (j + 1)..(i - 1) : IsNaN(df[m].entry_price)

StopOfLong ==
    RMul(R(df[EntryBar].close),
         Norm(100 - strategy.risk_management.stop_loss_percent, 100))

\* C4: a long position entered at E that is still open when a bar with
\* low <= E * (1 - s/100) is processed is closed at that bar at the price
\* E * (1 - s/100); if the engine is long after the bar, it is in a position
\* opened at that bar.
C4_StopLoss ==
    [][(BarProcessed /\ position = 1 /\ RLe(R(df[i].low), StopOfLong)) =>
        /\ ClosedAtBar
        /\ df'[i].exit_price = StopOfLong
        /\ position' # 0 => OpenedAtBar]_vars

\* C4 witness: a long position was opened at bar j, held over a bar, and
\* stopped out at bar k
C4_Witness ==
    /\ pc = "loop"
    /\ \E j, k \in 1..Len(df) :
          /\ j + 1 < k
          /\ df[j].position = 1
          /\ NotNa(df[j].entry_price)
          /\ \A m \in (j + 1)..(k - 1) :
                IsNaN(df[m].entry_price) /\ IsNaN(df[m].trade_result)
          /\ NotNa(df[k].trade_result)
          /\ df[k].exit_price = df[j].stop_loss

(***************************************************************************)
(* Several calls of backtest_strategy, one after the other, on the same    *)
(* series: every call after the first may pass another strategy.           *)
(***************************************************************************)
TwiceShapes == {Dip, Steady, Shape(12, 12, 18)}

TwiceStrategies ==
    {MkStrategy("sma", <<<<SMA_20_period, 2>>>>, Risk(50, 50)),
     MkStrategy("ema first",
                <<<<RSI_14_period, 2>>, <<EMA_10_period, 3>>, <<SMA_20_period, 2>>>>,
                Risk(25, 50))}

InitTwice ==
    /\ strategy \in TwiceStrategies
    /\ data \in SeriesOver(TwiceShapes)
    /\ param_ranges = <<>>
    /\ given = [strategy |-> strategy, data |-> data, param_ranges |-> param_ranges]
    /\ pc = "idle"
    /\ calls = <<>>
    /\ EngineIdle
    /\ OptimizerIdle
    /\ BuilderIdle
    /\ LibraryIdle

\* the caller takes the result and calls again
NextCall ==
    /\ pc = "done"
    /\ Len(calls) + 1 < MaxCalls
    /\ calls' = Append(calls, [strategy |-> strategy, data |-> data,
                               results |-> results])
    /\ \E s \in TwiceStrategies :
          /\ strategy' = s
          /\ given' = [given EXCEPT !.strategy = s]
    /\ pc' = "idle"
    /\ UNCHANGED <<builderVars, libraryVars, data, param_ranges, engineVars, results, optimizerVars>>

NextTwice ==
    \/ BacktestReject
    \/ BacktestBegin
    \/ BacktestBar
    \/ BacktestFinish
    \/ NextCall

SpecTwice == InitTwice /\ [][NextTwice]_vars

MaxCombinations == 100

ParamNames(pr) == [k \in 1..Len(pr) |-> pr[k][1]]
ParamValues(pr) == [k \in 1..Len(pr) |-> pr[k][2]]

RECURSIVE TotalCombinations(_)
TotalCombinations(values) ==
    IF values = <<>> THEN 1
    ELSE Len(values[1]) * TotalCombinations(Tail(values))

\* generate_combinations: the combinations yielded from position
\* current_idx on, the candidates of that position taken from the j-th on
RECURSIVE GenerateFrom(_, _, _, _, _)
GenerateFrom(params, values, current_idx, current_combo, j) ==
    IF current_idx > Len(params) THEN <<current_combo>>
    ELSE IF j > Len(values[current_idx]) THEN <<>>
    ELSE GenerateFrom(params, values, current_idx + 1,
                      SetItem(current_combo, params[current_idx],
                              values[current_idx][j]), 1)
         \o GenerateFrom(params, values, current_idx, current_combo, j + 1)

GenerateCombinations(params, values) == GenerateFrom(params, values, 1, <<>>, 1)

\* variant: the test of the data and the test of the mapping exchanged
EarlyReturnParamsFirst(d, pr) ==
    IF pr = <<>> THEN "no parameters"
    ELSE IF TooShort(d) THEN "insufficient data"
    ELSE IF TotalCombinations(ParamValues(pr)) > MaxCombinations THEN "too many"
    ELSE "none"

\* variant: the cap compared with >=
EarlyReturnCapInclusive(d, pr) ==
    IF TooShort(d) THEN "insufficient data"
    ELSE IF pr = <<>> THEN "no parameters"
    ELSE IF TotalCombinations(ParamValues(pr)) >= MaxCombinations THEN "too many"
    ELSE "none"

\* lines 475-508: which of the early returns is taken
EarlyReturn(d, pr) ==
    IF TooShort(d) THEN "insufficient data"
    ELSE IF pr = <<>> THEN "no parameters"
    ELSE IF TotalCombinations(ParamValues(pr)) > MaxCombinations THEN "too many"
    ELSE "none"

InsufficientOptimization ==
    [success |-> FALSE, error |-> <<"Insufficient data for optimization">>]

NoParameters ==
    [success |-> FALSE, error |-> <<"No parameters provided for optimization">>]

TooManyCombinations(total) ==
    [success |-> FALSE,
     error |-> <<"Too many parameter combinations", total,
                 "Maximum allowed is", MaxCombinations>>]

NoValidCombination ==
    [success |-> FALSE, error |-> <<"No valid parameter combinations found">>]

\* variant: the original parameters laid over the combination
OverlayReversed(s, params) == DictMerge(params, s.parameters)

\* line 525
Overlay(s, params) == DictMerge(s.parameters, params)

\* lines 524-529: the copy, its parameters and its name
StrategyCopy(s, params) ==
    [s EXCEPT !.parameters = Overlay(s, params),
              !.name = Append(s.name, params)]

TotalTrades(r) == IF "total_trades" \in DOMAIN r THEN r.total_trades ELSE 0

\* variant: a combination without trades is not skipped
SkippedNever(r) == ~(TotalTrades(r) >= 0)

\* line 535
Skipped(r) == ~(TotalTrades(r) > 0)

\* lines 541-546
PerformanceScore(r) ==
    LET profit_percent ==
            RMul(RSub(RDiv(r.final_capital, r.initial_capital), R(1)), R(100))
        win_rate == RMul(r.win_rate, R(100))
        max_drawdown == r.max_drawdown_percent
    IN  RSub(RAdd(RMul(profit_percent, Norm(5, 10)), RMul(win_rate, Norm(3, 10))),
             RMul(max_drawdown, Norm(2, 10)))

\* variant: a combination that only equals the best replaces it
BetterOrEqual(score, best) == RGe(score, best)

\* line 549
Better(score, best) == RGt(score, best)

(***************************************************************************)
(* optimize_strategy as a state machine: one step per combination.         *)
(***************************************************************************)
Combinations == GenerateCombinations(ParamNames(param_ranges), ParamValues(param_ranges))

\* lines 475-479
OptRejectData ==
    /\ pc = "opt_idle"
    /\ EarlyReturn(data, param_ranges) = "insufficient data"
    /\ optimized' = InsufficientOptimization
    /\ pc' = "opt_done"
    /\ UNCHANGED <<builderVars, libraryVars, inputVars, engineVars, results, calls,
                   combo, strategy_copy, backtest_result, best_result, tested>>

\* lines 481-485
OptRejectEmpty ==
    /\ pc = "opt_idle"
    /\ EarlyReturn(data, param_ranges) = "no parameters"
    /\ optimized' = NoParameters
    /\ pc' = "opt_done"
    /\ UNCHANGED <<builderVars, libraryVars, inputVars, engineVars, results, calls,
                   combo, strategy_copy, backtest_result, best_result, tested>>

\* lines 498-508
OptRejectTooMany ==
    /\ pc = "opt_idle"
    /\ EarlyReturn(data, param_ranges) = "too many"
    /\ optimized' = TooManyCombinations(TotalCombinations(ParamValues(param_ranges)))
    /\ pc' = "opt_done"
    /\ UNCHANGED <<builderVars, libraryVars, inputVars, engineVars, results, calls,
                   combo, strategy_copy, backtest_result, best_result, tested>>

\* lines 487-496 and 522: the search starts
OptBegin ==
    /\ pc = "opt_idle"
    /\ EarlyReturn(data, param_ranges) = "none"
    /\ best_result' = NoBest
    /\ combo' = 0
    /\ pc' = "opt_loop"
    /\ UNCHANGED <<builderVars, libraryVars, inputVars, engineVars, results, calls,
                   strategy_copy, backtest_result, tested, optimized>>

\* lines 522-552: one combination
OptTestCombination ==
    /\ pc = "opt_loop"
    /\ combo < Len(Combinations)
    /\ \E params \in {Combinations[combo + 1]} :
       \E copy \in {StrategyCopy(strategy, params)} :
       \E r \in {BacktestStrategy(copy, data)} :
       \E performance_score \in {IF Skipped(r) THEN NaN ELSE PerformanceScore(r)} :
          /\ strategy_copy' = copy
          /\ backtest_result' = r
          /\ tested' = Append(tested,
                 [params |-> params,
                  total_trades |-> r.total_trades,
                  initial_capital |-> r.initial_capital,
                  final_capital |-> r.final_capital,
                  win_rate |-> r.win_rate,
                  max_drawdown_percent |-> r.max_drawdown_percent])
          /\ IF Skipped(r)
             THEN UNCHANGED best_result
             ELSE best_result' =
                     IF Better(performance_score, best_result.performance_score)
                     THEN [strategy |-> copy, backtest_result |-> r,
                           performance_score |-> performance_score]
                     ELSE best_result
    /\ combo' = combo + 1
    /\ UNCHANGED <<builderVars, libraryVars, inputVars, engineVars, results, calls, pc, optimized>>

\* lines 554-567
OptReturn ==
    /\ pc = "opt_loop"
    /\ combo >= Len(Combinations)
    /\ optimized' =
          IF best_result.strategy = NoneValue THEN NoValidCombination
          ELSE [success |-> TRUE,
                optimized_strategy |-> best_result.strategy,
                backtest_result |-> best_result.backtest_result,
                performance_score |-> best_result.performance_score,
                tested_combinations |-> TotalCombinations(ParamValues(param_ranges))]
    /\ pc' = "opt_done"
    /\ UNCHANGED <<builderVars, libraryVars, inputVars, engineVars, results, calls,
                   combo, strategy_copy, backtest_result, best_result, tested>>

(***************************************************************************)
(* Inputs of the optimizer.                                                *)
(***************************************************************************)
OptStrategies ==
    {MkStrategy("sma", <<<<SMA_20_period, 2>>>>, Risk(50, 50)),
     MkStrategy("rsi", <<<<SMA_20_note, 2>>, <<RSI_14_period, 3>>>>, Risk(25, 50))}

SmallRanges ==
    {<<>>,
     <<<<SMA_20_period, <<>>>>>>,
     <<<<SMA_20_period, <<2, 3>>>>>>,
     <<<<EMA_10_period, <<0, 20>>>>>>,
     <<<<SMA_20_period, <<3, 20, 2>>>>, <<RSI_14_period, <<7, 14>>>>>>}

LargeRanges ==
    {<<<<RSI_14_period, [k \in 1..10 |-> k]>>, <<SMA_20_note, [k \in 1..10 |-> k]>>>>,
     <<<<RSI_14_period, [k \in 1..101 |-> k]>>>>,
     <<<<SMA_20_period, <<2, 3, 4, 5, 6>>>>, <<RSI_14_period, <<7, 14, 21>>>>,
       <<SMA_20_note, <<1, 2, 3, 4, 5, 6, 7>>>>>>}

\* the series the large grids are tried on
ZigZag == MkSeries(WarmBars, [k \in 1..FreeBars |-> IF k % 2 = 1 THEN Steady ELSE Dip])

InitOpt ==
    /\ strategy \in OptStrategies
    /\ \/ /\ pc = "opt_idle"
          /\ \/ param_ranges \in SmallRanges /\ data \in OHLCVSeries
             \/ param_ranges \in LargeRanges
                /\ data \in {ZigZag, MkSeries(WarmBars - 1, <<>>)}
       \/ /\ pc = "idle"
          /\ param_ranges = <<>>
          /\ data \in OHLCVSeries
    /\ given = [strategy |-> strategy, data |-> data, param_ranges |-> param_ranges]
    /\ calls = <<>>
    /\ EngineIdle
    /\ OptimizerIdle
    /\ BuilderIdle
    /\ LibraryIdle

NextOpt ==
    \/ OptRejectData
    \/ OptRejectEmpty
    \/ OptRejectTooMany
    \/ OptBegin
    \/ OptTestCombination
    \/ OptReturn
    \/ BacktestReject
    \/ BacktestBegin
    \/ BacktestBar
    \/ BacktestFinish

SpecOpt == InitOpt /\ [][NextOpt]_vars

(***************************************************************************)
(* Properties of optimize_strategy.                                        *)
(***************************************************************************)
\* 0.5 * profit_percent + 0.3 * win_rate_percent - 0.2 * max_drawdown_percent
\* of a backtest with the metrics m
ScoreOf(m) ==
    LET profit_percent ==
            RMul(RSub(RDiv(m.final_capital, m.initial_capital), R(1)), R(100))
        win_rate_percent == RMul(m.win_rate, R(100))
    IN  RSub(RAdd(RMul(Norm(1, 2), profit_percent),
                  RMul(Norm(3, 10), win_rate_percent)),
             RMul(Norm(1, 5), m.max_drawdown_percent))

Evaluated == {k \in 1..Len(tested) : tested[k].total_trades > 0}

Succeeded == pc = "opt_done" /\ optimized.success

\* C6: on success the returned performance_score is the score of the
\* returned backtest_result, no evaluated combination has a higher score,
\* and the returned strategy is that of the first enumerated combination
\* with that score.
C6_BestScore ==
    Succeeded =>
        LET S == ScoreOf(optimized.backtest_result)
            top == {k \in Evaluated : ScoreOf(tested[k]) = S}
        IN  /\ optimized.performance_score = S
            /\ \A k \in Evaluated : RLe(ScoreOf(tested[k]), S)
            /\ top # {}
            /\ \E k \in top :
                  /\ \A j \in top : k <= j
                  /\ optimized.optimized_strategy.name
                        = Append(strategy.name, tested[k].params)

\* C6 witness: the search succeeded where two evaluated combinations share
\* the best score and a third one has a lower score
C6_Witness ==
    /\ Succeeded
    /\ \E j, k, l \in Evaluated :
          /\ j # k
          /\ ScoreOf(tested[j]) = optimized.performance_score
          /\ ScoreOf(tested[k]) = optimized.performance_score
          /\ RLt(ScoreOf(tested[l]), optimized.performance_score)

ProductOfLengths == TotalCombinations(ParamValues(param_ranges))

CitesTheCap(r) ==
    /\ r.success = FALSE
    /\ r.error = <<"Too many parameter combinations", ProductOfLengths,
                   "Maximum allowed is", 100>>

\* C7 as stated: whenever the product of the list lengths exceeds 100 the
\* request is rejected, without a backtest, with the error citing the
\* maximum of 100; it is not so rejected when the product is 100 or less.
C7_CapAlways ==
    pc = "opt_done" =>
        /\ ProductOfLengths > 100 => (CitesTheCap(optimized) /\ tested = <<>>)
        /\ ProductOfLengths <= 100 => ~CitesTheCap(optimized)

\* C7 amended: the same for a series of at least 10 bars; a shorter series
\* is rejected for its length before the product is looked at.
C7_CapAfterData ==
    pc = "opt_done" =>
        /\ (Len(data) >= 10 /\ ProductOfLengths > 100)
              => (CitesTheCap(optimized) /\ tested = <<>>)
        /\ (Len(data) < 10 /\ ProductOfLengths > 100)
              => (optimized = InsufficientOptimization /\ tested = <<>>)
        /\ ProductOfLengths <= 100 => ~CitesTheCap(optimized)

\* C7 witness: 101 combinations on a series of at least 10 bars were
\* rejected
C7_Witness ==
    /\ pc = "opt_done"
    /\ Len(data) >= 10
    /\ ProductOfLengths = 101
    /\ CitesTheCap(optimized)

\* C8: a series of fewer than 10 bars is refused as insufficient data, and
\* an empty mapping on a longer series as missing parameters, both without
\* a backtest; with both, insufficient data is reported.
C8_EarlyFailures ==
    pc = "opt_done" =>
        /\ Len(data) < 10 =>
              /\ optimized = [success |-> FALSE,
                              error |-> <<"Insufficient data for optimization">>]
              /\ tested = <<>>
        /\ (Len(data) >= 10 /\ param_ranges = <<>>) =>
              /\ optimized = [success |-> FALSE,
                              error |-> <<"No parameters provided for optimization">>]
              /\ tested = <<>>

\* C8 witness: a short series with an empty mapping was refused
C8_Witness ==
    /\ pc = "opt_done"
    /\ Len(data) < 10
    /\ param_ranges = <<>>
    /\ optimized.success = FALSE

\* C9: the best combination so far always has trades; the search fails
\* exactly when no backtest it ran produced a trade, and otherwise returns
\* the strategy of one tested combination with the backtest result of that
\* strategy.
C9_NeverZeroTrades ==
    /\ (pc \in {"opt_loop", "opt_done"} /\ best_result.strategy # NoneValue)
          => best_result.backtest_result.total_trades > 0
    /\ pc = "opt_done" =>
          /\ optimized.success = FALSE <=> Evaluated = {}
          /\ optimized.success =>
                /\ optimized.backtest_result.total_trades > 0
                /\ optimized.backtest_result
                      = BacktestStrategy(optimized.optimized_strategy, data)
                /\ \E k \in Evaluated :
                      optimized.optimized_strategy.name
                          = Append(strategy.name, tested[k].params)

\* C9 witness: the search succeeded although its first combination traded
\* nothing
C9_Witness ==
    /\ Succeeded
    /\ tested[1].total_trades = 0

\* the caller's arguments are what was passed
InputsUnchanged ==
    /\ strategy = given.strategy
    /\ data = given.data
    /\ param_ranges = given.param_ranges

\* C10: backtest_strategy and optimize_strategy leave the strategy and the
\* series they were given as they were; the strategy tested for a
\* combination is a copy that differs from the given one only in its name
\* and in its parameters, which are the given parameters with the
\* combination's values laid over them.
C10_InputsUnchanged ==
    /\ InputsUnchanged
    /\ (pc \in {"opt_loop", "opt_done"} /\ tested # <<>>) =>
          LET params == tested[Len(tested)].params
              original == given.strategy.parameters
              copied == strategy_copy.parameters
          IN  /\ strategy_copy.entry_rules = given.strategy.entry_rules
              /\ strategy_copy.exit_rules = given.strategy.exit_rules
              /\ strategy_copy.risk_management = given.strategy.risk_management
              /\ strategy_copy.description = given.strategy.description
              /\ Keys(copied) = Keys(original) \cup Keys(params)
              /\ Len(copied) = Cardinality(Keys(copied))
              /\ \A key \in Keys(params) :
                    Lookup(copied, key) = Lookup(params, key)
              /\ \A key \in Keys(original) \ Keys(params) :
                    Lookup(copied, key) = Lookup(original, key)

\* C10 witness: the search returned a strategy whose period differs from
\* the period of the strategy it was given
C10_Witness ==
    /\ Succeeded
    /\ SMA_20_period \in Keys(strategy.parameters)
    /\ Lookup(optimized.optimized_strategy.parameters, SMA_20_period)
          # Lookup(strategy.parameters, SMA_20_period)

(***************************************************************************)
(* create_strategy.  A pattern match is a record with a pattern name and   *)
(* a probability, either of which may be absent; an indicator name such as *)
(* "SMA_5" is the sequence of its underscore-separated parts <<"SMA",      *)
(* "5">>.  A text built by an f-string is the sequence of its words, so    *)
(* that replacing the underscores of a name by spaces splices the parts of *)
(* the name into the sentence.                                             *)
(***************************************************************************)
IsRaised(x) == "raised" \in DOMAIN x

\* int(text): the decimal texts the model uses, and ValueError otherwise
IsInt(text) == text \in {"2", "3", "5", "14"}

IntOf(text) ==
    CASE text = "2" -> 2
      [] text = "3" -> 3
      [] text = "5" -> 5
      [] text = "14" -> 14

ValueError(text) ==
    [raised |-> "ValueError",
     message |-> <<"invalid literal for int() with base 10:", text>>]

\* str.startswith on the first part of a name: the first parts that begin
\* with the prefix
Prefixed(prefix) ==
    CASE prefix = "SMA" -> {"SMA", "SMA20"}
      [] prefix = "EMA" -> {"EMA"}
      [] prefix = "RSI" -> {"RSI"}
      [] prefix = "MACD" -> {"MACD", "MACDX"}

HasPrefix(name, prefix) == Len(name) >= 1 /\ name[1] \in Prefixed(prefix)

\* str.title() of one word
Title(word) ==
    CASE word = "double" -> "Double"
      [] word = "bottom" -> "Bottom"
      [] word = "top" -> "Top"
      [] word = "flag" -> "Flag"
      [] word = "ascending" -> "Ascending"
      [] word = "descending" -> "Descending"
      [] word = "symmetric" -> "Symmetric"
      [] word = "triangle" -> "Triangle"
      [] word = "head" -> "Head"
      [] word = "and" -> "And"
      [] word = "shoulders" -> "Shoulders"

TitleAll(words) == [k \in 1..Len(words) |-> Title(words[k])]

DOUBLE_BOTTOM == <<"double", "bottom">>
DOUBLE_TOP == <<"double", "top">>
ASCENDING_TRIANGLE == <<"ascending", "triangle">>
HEAD_AND_SHOULDERS == <<"head", "and", "shoulders">>
DESCENDING_TRIANGLE == <<"descending", "triangle">>
SYMMETRIC_TRIANGLE == <<"symmetric", "triangle">>

BullishPatterns == {DOUBLE_BOTTOM, ASCENDING_TRIANGLE}
BearishPatterns == {DOUBLE_TOP, HEAD_AND_SHOULDERS, DESCENDING_TRIANGLE}

\* x.get('probability', 0) and top_pattern.get('pattern', '')
ProbabilityOf(x) == IF "probability" \in DOMAIN x THEN x.probability ELSE R(0)
PatternOf(x) == IF "pattern" \in DOMAIN x THEN x.pattern ELSE <<>>

\* sorted(patterns, key = probability, reverse = True): a stable sort, so
\* matches of equal probability keep their order
RECURSIVE InsertByProbability(_, _)
InsertByProbability(sorted, x) ==
    IF sorted = <<>> THEN <<x>>
    ELSE IF RGt(ProbabilityOf(x), ProbabilityOf(Head(sorted)))
         THEN <<x>> \o sorted
         ELSE <<Head(sorted)>> \o InsertByProbability(Tail(sorted), x)

RECURSIVE SortedByProbability(_)
SortedByProbability(ps) ==
    IF ps = <<>> THEN <<>>
    ELSE InsertByProbability(SortedByProbability(SubSeq(ps, 1, Len(ps) - 1)),
                             ps[Len(ps)])

\* lines 39-51
NewStrategy(t) ==
    [name |-> <<"Auto-generated Strategy">>,
     description |-> <<"Strategy based on technical indicators and chart patterns">>,
     created_at |-> IsoFormat(t),
     entry_rules |-> <<>>,
     exit_rules |-> <<>>,
     risk_management |-> Risk(2, 6),
     parameters |-> <<>>]

PatternRule(pattern_type, action, side) ==
    [type |-> "pattern", pattern |-> pattern_type, action |-> action,
     description |-> <<"Enter", side, "when">> \o pattern_type
                         \o <<"pattern is confirmed">>]

\* lines 54-81
ProcessPatterns(s, ps) ==
    IF ps = <<>> THEN s
    ELSE LET sorted_patterns == SortedByProbability(ps)
             top_pattern == sorted_patterns[1]
             pattern_type == PatternOf(top_pattern)
             described == [s EXCEPT !.description =
                              @ \o <<"with">> \o TitleAll(pattern_type)
                                \o <<"pattern">>]
         IN  IF pattern_type \in BullishPatterns
             THEN [described EXCEPT !.entry_rules =
                      Append(@, PatternRule(pattern_type, "buy", "long"))]
             ELSE IF pattern_type \in BearishPatterns
             THEN [described EXCEPT !.entry_rules =
                      Append(@, PatternRule(pattern_type, "sell", "short"))]
             ELSE described

IndicatorRule(indicator, action, condition, text) ==
    [type |-> "indicator", indicator |-> indicator, action |-> action,
     condition |-> condition, description |-> text]

ThresholdRule(indicator, action, condition, threshold, text) ==
    [type |-> "indicator", indicator |-> indicator, action |-> action,
     condition |-> condition, threshold |-> threshold, description |-> text]

\* "_" in indicator_name, and indicator_name.split("_")[1]
HasUnderscore(name) == Len(name) >= 2
SecondPart(name) == name[2]

\* lines 88 and 128: int(indicator_name.split("_")[1]) if "_" in
\* indicator_name else the default
PeriodOf(name, default) ==
    IF HasUnderscore(name)
    THEN IF IsInt(SecondPart(name)) THEN IntOf(SecondPart(name))
         ELSE ValueError(SecondPart(name))
    ELSE default

PeriodRaises(name) == HasUnderscore(name) /\ ~IsInt(SecondPart(name))

\* lines 87-124
AddMovingAverage(s, name) ==
    [s EXCEPT
       !.entry_rules = @ \o
          <<IndicatorRule(name, "buy", "price_crosses_above",
                          <<"Enter long when price crosses above">> \o name),
            IndicatorRule(name, "sell", "price_crosses_below",
                          <<"Enter short when price crosses below">> \o name)>>,
       !.exit_rules = @ \o
          <<IndicatorRule(name, "exit_long", "price_crosses_below",
                          <<"Exit long when price crosses below">> \o name),
            IndicatorRule(name, "exit_short", "price_crosses_above",
                          <<"Exit short when price crosses above">> \o name)>>,
       !.parameters = SetItem(@, Append(name, "period"), PeriodOf(name, 20))]

\* lines 127-170
AddRsi(s, name) ==
    [s EXCEPT
       !.entry_rules = @ \o
          <<ThresholdRule(name, "buy", "crosses_above", 30,
                          <<"Enter long when">> \o name
                              \o <<"crosses above 30 (oversold)">>),
            ThresholdRule(name, "sell", "crosses_below", 70,
                          <<"Enter short when">> \o name
                              \o <<"crosses below 70 (overbought)">>)>>,
       !.exit_rules = @ \o
          <<ThresholdRule(name, "exit_long", "crosses_above", 70,
                          <<"Exit long when">> \o name
                              \o <<"crosses above 70 (overbought)">>),
            ThresholdRule(name, "exit_short", "crosses_below", 30,
                          <<"Exit short when">> \o name
                              \o <<"crosses below 30 (oversold)">>)>>,
       !.parameters =
          SetItem(SetItem(SetItem(@, Append(name, "period"), PeriodOf(name, 14)),
                          Append(name, "overbought"), 70),
                  Append(name, "oversold"), 30)]

\* lines 173-210
AddMacd(s) ==
    [s EXCEPT
       !.entry_rules = @ \o
          <<IndicatorRule(<<"MACD">>, "buy", "line_crosses_above_signal",
                          <<"Enter long when MACD line crosses above signal line">>),
            IndicatorRule(<<"MACD">>, "sell", "line_crosses_below_signal",
                          <<"Enter short when MACD line crosses below signal line">>)>>,
       !.exit_rules = @ \o
          <<IndicatorRule(<<"MACD">>, "exit_long", "line_crosses_below_signal",
                          <<"Exit long when MACD line crosses below signal line">>),
            IndicatorRule(<<"MACD">>, "exit_short", "line_crosses_above_signal",
                          <<"Exit short when MACD line crosses above signal line">>)>>,
       !.parameters =
          SetItem(SetItem(SetItem(@, <<"MACD", "fast", "period">>, 12),
                          <<"MACD", "slow", "period">>, 26),
                  <<"MACD", "signal", "period">>, 9)]

\* lines 86-210: the loop over indicators.items() from item k on; an
\* exception raised by int() ends the call
RECURSIVE ProcessIndicators(_, _, _)
ProcessIndicators(s, ind, k) ==
    IF k > Len(ind) THEN s
    ELSE LET indicator_name == ind[k][1]
         IN  IF HasPrefix(indicator_name, "SMA") \/ HasPrefix(indicator_name, "EMA")
             THEN IF PeriodRaises(indicator_name)
                  THEN PeriodOf(indicator_name, 20)
                  ELSE ProcessIndicators(AddMovingAverage(s, indicator_name), ind, k + 1)
             ELSE IF HasPrefix(indicator_name, "RSI")
             THEN IF PeriodRaises(indicator_name)
                  THEN PeriodOf(indicator_name, 14)
                  ELSE ProcessIndicators(AddRsi(s, indicator_name), ind, k + 1)
             ELSE IF HasPrefix(indicator_name, "MACD")
             THEN ProcessIndicators(AddMacd(s), ind, k + 1)
             ELSE ProcessIndicators(s, ind, k + 1)

\* lines 213-228
DefaultEntryRules ==
    <<[type |-> "price_action", action |-> "buy",
       condition |-> "higher_high_higher_low", lookback |-> 3,
       description |-> <<"Enter long when price makes 3 consecutive higher highs and higher lows">>],
      [type |-> "price_action", action |-> "sell",
       condition |-> "lower_high_lower_low", lookback |-> 3,
       description |-> <<"Enter short when price makes 3 consecutive lower highs and lower lows">>]>>

ExitRule(type, action, percent, text) ==
    [type |-> type, action |-> action, percent |-> percent,
     description |-> text]

\* variant: no fallback for the exit rules
DefaultExitRulesNone(risk) == <<>>

\* lines 230-257
DefaultExitRules(risk) ==
    <<ExitRule("stop_loss", "exit_long", risk.stop_loss_percent,
               <<"Exit long when price falls", risk.stop_loss_percent, "% below entry">>),
      ExitRule("stop_loss", "exit_short", risk.stop_loss_percent,
               <<"Exit short when price rises", risk.stop_loss_percent, "% above entry">>),
      ExitRule("take_profit", "exit_long", risk.take_profit_percent,
               <<"Exit long when price rises", risk.take_profit_percent, "% above entry">>),
      ExitRule("take_profit", "exit_short", risk.take_profit_percent,
               <<"Exit short when price falls", risk.take_profit_percent, "% below entry">>)>>

WithDefaults(s) ==
    LET e == IF s.entry_rules = <<>>
             THEN [s EXCEPT !.entry_rules = DefaultEntryRules] ELSE s
    IN  IF e.exit_rules = <<>>
        THEN [e EXCEPT !.exit_rules = DefaultExitRules(e.risk_management)] ELSE e

\* create_strategy called when the clock reads t: the strategy, or the
\* exception raised
CreateStrategy(ps, ind, t) ==
    LET s == ProcessIndicators(ProcessPatterns(NewStrategy(t), ps), ind, 1)
    IN  IF IsRaised(s) THEN s ELSE WithDefaults(s)

(***************************************************************************)
(* validate_strategy.  The value returned is the pair (is_valid,           *)
(* error_message); the message None is the empty sequence.  Rule lists are *)
(* sequences and the risk percentages are numbers in every strategy of     *)
(* this model, so the isinstance tests of lines 218, 225, 234 and 243      *)
(* pass.                                                                   *)
(***************************************************************************)
Verdict(is_valid, error_message) ==
    [is_valid |-> is_valid, error_message |-> error_message]

RequiredFields == <<"name", "entry_rules", "exit_rules", "risk_management">>
RequiredRiskFields == <<"stop_loss_percent", "take_profit_percent">>

\* the first field of the list that the record lacks, 0 when it has all
FirstMissing(fields, r) ==
    LET missing == {k \in 1..Len(fields) : fields[k] \notin DOMAIN r}
    IN  IF missing = {} THEN 0 ELSE CHOOSE k \in missing : \A j \in missing : k <= j

ValidateStrategy(s) ==
    IF DOMAIN s = {} THEN Verdict(FALSE, <<"Strategy is empty">>)
    ELSE IF FirstMissing(RequiredFields, s) # 0
    THEN Verdict(FALSE, <<"Missing required field",
                          RequiredFields[FirstMissing(RequiredFields, s)]>>)
    ELSE IF s.entry_rules = <<>>
    THEN Verdict(FALSE, <<"Entry rules cannot be empty">>)
    ELSE IF s.exit_rules = <<>>
    THEN Verdict(FALSE, <<"Exit rules cannot be empty">>)
    ELSE IF FirstMissing(RequiredRiskFields, s.risk_management) # 0
    THEN Verdict(FALSE, <<"Missing required risk management field",
                          RequiredRiskFields[FirstMissing(RequiredRiskFields,
                                                          s.risk_management)]>>)
    ELSE Verdict(TRUE, <<>>)

(***************************************************************************)
(* The strategy builder as a state machine: create_strategy is called,     *)
(* the strategy it returns is validated and then backtested.               *)
(***************************************************************************)
Match(pattern, probability) == [pattern |-> pattern, probability |-> probability]

PatternLists ==
    {<<>>,
     <<Match(DOUBLE_BOTTOM, Norm(7, 10))>>,
     <<Match(DOUBLE_TOP, Norm(4, 10)), Match(ASCENDING_TRIANGLE, Norm(7, 10))>>,
     <<Match(HEAD_AND_SHOULDERS, Norm(4, 10)), Match(DOUBLE_BOTTOM, Norm(4, 10))>>,
     <<Match(<<"flag">>, Norm(9, 10)), Match(DOUBLE_TOP, Norm(4, 10))>>,
     <<[probability |-> Norm(5, 10)]>>}

IndicatorMaps ==
    {<<>>,
     <<<<<<"SMA", "5">>, <<>>>>>>,
     <<<<<<"RSI", "14">>, <<>>>>, <<<<"EMA", "3">>, <<>>>>, <<<<"SMA", "2">>, <<>>>>>>,
     <<<<<<"EMA">>, <<>>>>>>,
     <<<<<<"SMA20">>, <<>>>>>>,
     <<<<<<"RSI">>, <<>>>>>>,
     <<<<<<"MACD">>, <<>>>>, <<<<"SMA", "2">>, <<>>>>>>,
     <<<<<<"VWAP">>, <<>>>>>>,
     <<<<<<"SMA", "2">>, <<>>>>, <<<<"SMA", "fast">>, <<>>>>>>,
     <<<<<<"RSI", "slow">>, <<>>>>>>}

\* closes rising strictly from 100
Rising == [k \in 1..(MinBars + FreeBars) |-> Bar(k, Shape(99 + k, 99 + k, 99 + k))]

BuildSeries == SeriesOver(TwiceShapes) \cup {Rising}

InitBuild ==
    /\ patterns \in PatternLists
    /\ indicators \in IndicatorMaps
    /\ now \in {0, 1}
    /\ created = NoneValue
    /\ builds = <<>>
    /\ verdict = NoneValue
    /\ strategy = NoneValue
    /\ data \in BuildSeries
    /\ param_ranges = <<>>
    /\ given = [strategy |-> strategy, data |-> data, param_ranges |-> param_ranges]
    /\ pc = "build"
    /\ calls = <<>>
    /\ EngineIdle
    /\ OptimizerIdle
    /\ LibraryIdle

\* lines 27-259: the call returns a strategy or raises
Create ==
    /\ pc = "build"
    /\ \E s \in {CreateStrategy(patterns, indicators, now)} :
          /\ created' = s
          /\ IF IsRaised(s)
             THEN pc' = "raised" /\ UNCHANGED builds
             ELSE /\ pc' = "built"
                  /\ builds' = Append(builds, [patterns |-> patterns,
                                               indicators |-> indicators,
                                               strategy |-> s])
    /\ UNCHANGED <<patterns, indicators, now, verdict, libraryVars, inputVars,
                   engineVars, results, calls, optimizerVars>>

\* the caller validates the strategy it received
Validate ==
    /\ pc = "built"
    /\ verdict' = ValidateStrategy(created)
    /\ pc' = "validated"
    /\ UNCHANGED <<patterns, indicators, now, created, builds, libraryVars,
                   inputVars, engineVars, results, calls, optimizerVars>>

\* the caller passes the strategy to backtest_strategy
BacktestCreated ==
    /\ pc = "validated"
    /\ strategy' = created
    /\ given' = [given EXCEPT !.strategy = created]
    /\ pc' = "idle"
    /\ UNCHANGED <<builderVars, libraryVars, data, param_ranges, engineVars,
                   results, calls, optimizerVars>>

NextBuild ==
    \/ Create
    \/ Validate
    \/ BacktestCreated
    \/ BacktestReject
    \/ BacktestBegin
    \/ BacktestBar
    \/ BacktestFinish

SpecBuild == InitBuild /\ [][NextBuild]_vars

(***************************************************************************)
(* Properties of create_strategy.                                          *)
(***************************************************************************)
Returned == pc \notin {"build", "raised"}

\* C11: whatever the pattern list and the indicator mapping are, a strategy
\* that create_strategy returns has entry rules, exit rules and a
\* risk_management block with stop_loss_percent and take_profit_percent,
\* and validate_strategy accepts it.
C11_WellFormed ==
    Returned =>
        /\ created.entry_rules # <<>>
        /\ created.exit_rules # <<>>
        /\ {"stop_loss_percent", "take_profit_percent"}
               \subseteq DOMAIN created.risk_management
        /\ verdict # NoneValue => verdict = Verdict(TRUE, <<>>)

\* C11 witness: a bullish pattern and no indicator gave a pattern entry rule
\* and no exit rule, the exit rules are the fallback, and the strategy was
\* accepted
C11_Witness ==
    /\ pc = "validated"
    /\ patterns # <<>>
    /\ indicators = <<>>
    /\ Len(created.entry_rules) = 1
    /\ created.entry_rules[1].type = "pattern"
    /\ created.exit_rules[1].type = "stop_loss"
    /\ verdict.is_valid

\* C12: create_strategy returns a strategy for every pattern list and every
\* indicator mapping; it never raises.
C12_AlwaysSucceeds == ~(pc = "raised" /\ IsRaised(created))

(***************************************************************************)
(* Several calls of create_strategy, one after the other, while the clock  *)
(* runs.                                                                   *)
(***************************************************************************)
TwicePatternLists ==
    {<<>>, <<Match(DOUBLE_TOP, Norm(4, 10)), Match(ASCENDING_TRIANGLE, Norm(7, 10))>>}

TwiceIndicatorMaps ==
    {<<>>,
     <<<<<<"SMA", "5">>, <<>>>>>>,
     <<<<<<"RSI", "14">>, <<>>>>, <<<<"EMA", "3">>, <<>>>>>>,
     <<<<<<"SMA", "fast">>, <<>>>>>>}

InitBuildTwice ==
    /\ patterns \in TwicePatternLists
    /\ indicators \in TwiceIndicatorMaps
    /\ now = 0
    /\ created = NoneValue
    /\ builds = <<>>
    /\ verdict = NoneValue
    /\ strategy = NoneValue
    /\ data = <<>>
    /\ param_ranges = <<>>
    /\ given = [strategy |-> strategy, data |-> data, param_ranges |-> param_ranges]
    /\ pc = "build"
    /\ calls = <<>>
    /\ EngineIdle
    /\ OptimizerIdle
    /\ LibraryIdle

\* time passes
Tick ==
    /\ now < MaxCalls
    /\ now' = now + 1
    /\ UNCHANGED <<patterns, indicators, created, builds, verdict, libraryVars,
                   inputVars, pc, engineVars, results, calls, optimizerVars>>

\* the caller calls create_strategy again
CreateAgain ==
    /\ pc \in {"built", "raised"}
    /\ Len(builds) + 1 < MaxCalls
    /\ patterns' \in TwicePatternLists
    /\ indicators' \in TwiceIndicatorMaps
    /\ pc' = "build"
    /\ UNCHANGED <<now, created, builds, verdict, libraryVars, inputVars,
                   engineVars, results, calls, optimizerVars>>

NextBuildTwice ==
    \/ Create
    \/ Tick
    \/ CreateAgain

SpecBuildTwice == InitBuildTwice /\ [][NextBuildTwice]_vars

\* C13: a call of create_strategy returns a strategy equal in every field
\* to the one every earlier call with an equal pattern list and an equal
\* indicator mapping returned, whenever the calls are made.
C13_Deterministic ==
    pc = "built" =>
        \A k \in 1..Len(builds) :
            (builds[k].patterns = patterns /\ builds[k].indicators = indicators)
                => builds[k].strategy = created

(***************************************************************************)
(* Properties of backtest_strategy on a created strategy.                  *)
(***************************************************************************)
\* the bars at which the signal crosses over: bearish at the bar before and
\* bullish at the bar, or the reverse
Flips(f) ==
    {k \in 2..Len(f) :
        \/ f[k - 1].signal = -1 /\ f[k].signal = 1
        \/ f[k - 1].signal = 1 /\ f[k].signal = -1}

IsRising(d) == \A k \in 2..Len(d) : d[k].close > d[k - 1].close

FromSma == \E k \in 1..Len(indicators) : HasPrefix(indicators[k][1], "SMA")

BacktestedCreated ==
    /\ pc = "done"
    /\ strategy = created
    /\ FromSma
    /\ IsBacktestResult(results)

\* C14 as stated: backtesting a strategy created from an SMA indicator
\* gives no trade when the signal never flips, and otherwise as many trades
\* as the series has crossover flips.
C14_TradesEqualFlips ==
    BacktestedCreated => results.total_trades = Cardinality(Flips(df))

\* C14 as amended: backtesting a strategy created from an SMA indicator
\* gives no trade when the signal never flips (in particular when close
\* rises strictly), and otherwise at most as many trades as the series has
\* crossover flips.
C14_TradesAtMostFlips ==
    BacktestedCreated =>
        /\ results.total_trades <= Cardinality(Flips(df))
        /\ Flips(df) = {} => results.total_trades = 0 /\ results.trades = <<>>
        /\ IsRising(data) => Flips(df) = {}

\* C14 witness: a strategy created from SMA_5 traded, on a series that has
\* more flips than the backtest has trades
C14_Witness ==
    /\ BacktestedCreated
    /\ indicators[1][1] = <<"SMA", "5">>
    /\ results.total_trades >= 1
    /\ results.total_trades < Cardinality(Flips(df))

(***************************************************************************)
(* validate_data.  The bars it is given are unchecked: a field may be      *)
(* absent, and a value carries its Python type: [type |-> "int", v |-> 10] *)
(* is the number 10, [type |-> "str", v |-> 10] the text "10".  The value  *)
(* returned is the pair (is_valid, error_message); a message is the triple *)
(* of its wording, the field it names ("" when none) and the index it      *)
(* names (None when none), and the message None is the empty sequence.     *)
(***************************************************************************)
Int_(v) == [type |-> "int", v |-> v]
Float_(v) == [type |-> "float", v |-> v]
Str_(v) == [type |-> "str", v |-> v]
NoneType_ == [type |-> "NoneType", v |-> 0]

\* isinstance(x, (int, float))
IsNumber(x) == x.type \in {"int", "float"}

Message(text, field, index) == <<text, field, index>>

RequiredDataFields == <<"time", "open", "high", "low", "close">>
PriceFields == <<"open", "high", "low", "close">>

\* the first field of the list whose value in the bar is no number, 0 when
\* all are numbers
FirstInvalid(fields, item) ==
    LET invalid == {k \in 1..Len(fields) : ~IsNumber(item[fields[k]])}
    IN  IF invalid = {} THEN 0 ELSE CHOOSE k \in invalid : \A j \in invalid : k <= j

\* variant: the high compared with the open only
HighBelowOpen(item) == item.high.v < item.open.v

\* line 190
HighBelowOpenOrClose(item) ==
    item.high.v < item.open.v \/ item.high.v < item.close.v

\* line 193
LowAboveOpenOrClose(item) ==
    item.low.v > item.open.v \/ item.low.v > item.close.v

\* lines 174-194: the message for the bar at index idx, None when the bar
\* passes
CheckItem(item, idx) ==
    IF FirstMissing(RequiredDataFields, item) # 0
    THEN Message("Missing required field",
                 RequiredDataFields[FirstMissing(RequiredDataFields, item)], idx)
    ELSE IF ~IsNumber(item.time)
    THEN Message("Invalid value", "time", idx)
    ELSE IF FirstInvalid(PriceFields, item) # 0
    THEN Message("Invalid value", PriceFields[FirstInvalid(PriceFields, item)], idx)
    ELSE IF item.high.v < item.low.v
    THEN Message("High value is less than low value", "", idx)
    ELSE IF HighBelowOpenOrClose(item)
    THEN Message("High value is less than open or close value", "", idx)
    ELSE IF LowAboveOpenOrClose(item)
    THEN Message("Low value is greater than open or close value", "", idx)
    ELSE <<>>

\* lines 173-196: the loop from the bar at position k on
RECURSIVE CheckItems(_, _)
CheckItems(d, k) ==
    IF k > Len(d) THEN Verdict(TRUE, <<>>)
    ELSE IF CheckItem(d[k], k - 1) # <<>>
    THEN Verdict(FALSE, CheckItem(d[k], k - 1))
    ELSE CheckItems(d, k + 1)

ValidateData(d) ==
    IF d = <<>> THEN Verdict(FALSE, Message("Data is empty", "", None))
    ELSE CheckItems(d, 1)

(***************************************************************************)
(* Inputs of validate_data: series of up to MaxRaw bars.                   *)
(***************************************************************************)
RawBar(t, o, h, l, c) ==
    [time |-> Int_(t), open |-> Int_(o), high |-> Int_(h), low |-> Int_(l),
     close |-> Float_(c), volume |-> Int_(1000)]

Sound == RawBar(1, 10, 12, 8, 11)

RawBars ==
    {Sound,
     RawBar(2, 10, 10, 10, 10),
     RawBar(1, 10, 9, 8, 10),
     RawBar(1, 10, 7, 8, 10),
     RawBar(2, 10, 11, 8, 12),
     RawBar(2, 12, 11, 8, 10),
     RawBar(3, 8, 12, 9, 10),
     RawBar(3, 10, 12, 9, 8),
     [time |-> Int_(1), open |-> Int_(10), high |-> Int_(12), low |-> Int_(8),
      volume |-> Int_(1000)],
     [open |-> Int_(10), high |-> Int_(9), low |-> Int_(8), close |-> Str_(10)],
     [Sound EXCEPT !.time = Str_(1)],
     [Sound EXCEPT !.high = NoneType_],
     [Sound EXCEPT !.close = Str_(11), !.low = Int_(13)]}

RawSeries == UNION {[1..n -> RawBars] : n \in 0..MaxRaw}

InitData ==
    /\ data \in RawSeries
    /\ strategy = NoneValue
    /\ param_ranges = <<>>
    /\ given = [strategy |-> strategy, data |-> data, param_ranges |-> param_ranges]
    /\ pc = "validate_data"
    /\ calls = <<>>
    /\ EngineIdle
    /\ OptimizerIdle
    /\ BuilderIdle
    /\ LibraryIdle

\* lines 158-196
ValidateDataCall ==
    /\ pc = "validate_data"
    /\ valid' = ValidateData(data)
    /\ pc' = "data_validated"
    /\ UNCHANGED <<period, sma, found, guardVars, builderVars, inputVars, engineVars,
                   results, calls, optimizerVars>>

NextData == ValidateDataCall

SpecData == InitData /\ [][NextData]_vars

(***************************************************************************)
(* Properties of validate_data.                                            *)
(***************************************************************************)
HasNumber(item, field) == field \in DOMAIN item /\ IsNumber(item[field])

Complete(item) == \A k \in 1..Len(RequiredDataFields) :
                     HasNumber(item, RequiredDataFields[k])

Min(a, b) == IF a <= b THEN a ELSE b
Max(a, b) == IF a >= b THEN a ELSE b

\* the bar breaks a price constraint
Inconsistent(item) ==
    \/ item.high.v < item.low.v
    \/ item.high.v < item.open.v
    \/ item.high.v < item.close.v
    \/ item.low.v > item.open.v
    \/ item.low.v > item.close.v

Offending(item) == ~Complete(item) \/ Inconsistent(item)

WellFormedBar(item) ==
    /\ Complete(item)
    /\ item.low.v <= Min(item.open.v, item.close.v)
    /\ item.high.v >= Max(item.open.v, item.close.v)

\* the message names something that is wrong with the bar
NamesViolationOf(message, item) ==
    LET text == message[1]
        field == message[2]
    IN  CASE text = "Missing required field" -> field \notin DOMAIN item
          [] text = "Invalid value" -> field \in DOMAIN item /\ ~IsNumber(item[field])
          [] text = "High value is less than low value" ->
                Complete(item) /\ item.high.v < item.low.v
          [] text = "High value is less than open or close value" ->
                Complete(item)
                /\ (item.high.v < item.open.v \/ item.high.v < item.close.v)
          [] text = "Low value is greater than open or close value" ->
                Complete(item)
                /\ (item.low.v > item.open.v \/ item.low.v > item.close.v)
          [] OTHER -> FALSE

Offenders(d) == {k \in 1..Len(d) : Offending(d[k])}
FirstOffender(d) == CHOOSE k \in Offenders(d) : \A j \in Offenders(d) : k <= j

\* C15: validate_data rejects the empty series; it rejects every series
\* holding a bar with a missing or non-numeric time, open, high, low or
\* close, or with high < low, high < open, high < close, low > open or
\* low > close, and its message names a violation of the first such bar and
\* that bar's index; it accepts every series whose bars all have the
\* numeric fields with low <= min(open, close) and high >= max(open, close).
C15_ValidateData ==
    pc = "data_validated" =>
        /\ data = <<>> => ~valid.is_valid
        /\ Offenders(data) # {} =>
              /\ ~valid.is_valid
              /\ valid.error_message[3] = FirstOffender(data) - 1
              /\ NamesViolationOf(valid.error_message, data[FirstOffender(data)])
        /\ (data # <<>> /\ \A k \in 1..Len(data) : WellFormedBar(data[k])) =>
              valid = Verdict(TRUE, <<>>)

\* C15 witness: the bar {time:1, open:10, high:9, low:8, close:10} after a
\* sound bar is rejected with the high-below-open-or-close message for
\* index 1
C15_Witness ==
    /\ pc = "data_validated"
    /\ data = <<Sound, RawBar(1, 10, 9, 8, 10)>>
    /\ valid = Verdict(FALSE,
                       Message("High value is less than open or close value", "", 1))

(***************************************************************************)
(* calculate_sma.  The period is a positive number.                        *)
(***************************************************************************)
\* df.set_index('time') on the frame of an empty list, which has no column
KeyError(key) == [raised |-> "KeyError", message |-> <<key>>]

\* variant: the rows without a value kept
KeepsRowAlways(f, p, k) == TRUE

\* line 42
KeepsRow(f, p, k) == ~IsNaN(RollingMean(f, p, k))

\* lines 40-46: the loop over the rows from row k on
RECURSIVE SmaRows(_, _, _)
SmaRows(f, p, k) ==
    IF k > Len(f) THEN <<>>
    ELSE IF KeepsRow(f, p, k)
    THEN <<[time |-> f[k].time, value |-> RollingMean(f, p, k)]>>
             \o SmaRows(f, p, k + 1)
    ELSE SmaRows(f, p, k + 1)

CalculateSma(d, p) ==
    IF d = <<>> THEN KeyError("time")
    ELSE SmaRows(ConvertToDataframe(d), p, 1)

(***************************************************************************)
(* Inputs of calculate_sma: series of up to FreeBars bars whose times are  *)
(* a minute apart, and periods up to one more than that.                   *)
(***************************************************************************)
TimedBar(k, sh) ==
    [time |-> 60 * k, open |-> sh.close, high |-> sh.high, low |-> sh.low,
     close |-> sh.close]

TimedSeries ==
    UNION {{[k \in 1..n |-> TimedBar(k, t[k])] : t \in Tails(TwiceShapes, n)} :
              n \in 0..FreeBars}

InitSma ==
    /\ data \in TimedSeries
    /\ period \in 1..(FreeBars + 1)
    /\ sma = NoneValue
    /\ found = NoneValue
    /\ valid = NoneValue
    /\ GuardIdle
    /\ strategy = NoneValue
    /\ param_ranges = <<>>
    /\ given = [strategy |-> strategy, data |-> data, param_ranges |-> param_ranges]
    /\ pc = "calculate_sma"
    /\ calls = <<>>
    /\ EngineIdle
    /\ OptimizerIdle
    /\ BuilderIdle

\* lines 26-48
CalculateSmaCall ==
    /\ pc = "calculate_sma"
    /\ sma' = CalculateSma(data, period)
    /\ pc' = IF data = <<>> THEN "sma_raised" ELSE "sma_done"
    /\ UNCHANGED <<period, found, valid, guardVars, builderVars, inputVars, engineVars,
                   results, calls, optimizerVars>>

NextSma == CalculateSmaCall

SpecSma == InitSma /\ [][NextSma]_vars

\* C16: for a series that validate_data accepts and a period p,
\* calculate_sma returns max(0, len(series) - p + 1) entries: none for the
\* first p - 1 bars and one for every later bar, in order, carrying that
\* bar's time.
C16_SmaLength ==
    (pc \in {"sma_done", "sma_raised"} /\ data # <<>>) =>
        /\ pc = "sma_done"
        /\ Len(sma) = Max(0, Len(data) - period + 1)
        /\ \A j \in 1..Len(sma) : sma[j].time = data[j + period - 1].time

\* C16 witness: a series of 4 bars and the period 3 gave two entries, the
\* second the mean of the last three closes
C16_Witness ==
    /\ pc = "sma_done"
    /\ Len(data) = 4
    /\ period = 3
    /\ Len(sma) = 2
    /\ sma[2].value = Norm(data[2].close + data[3].close + data[4].close, 3)
    /\ data[2].close # data[4].close

(***************************************************************************)
(* Pattern detection (technical_analysis/patterns.py).  Peaks and troughs  *)
(* are row positions in increasing order; positions here are 1-based, and  *)
(* only their differences and the rows they select enter the results.      *)
(***************************************************************************)
Order == 5

\* the members of a set of numbers in increasing order
RECURSIVE Ascending(_)
Ascending(S) ==
    IF S = {} THEN <<>>
    ELSE LET least == CHOOSE x \in S : \A y \in S : x <= y
         IN  <<least>> \o Ascending(S \ {least})

\* numpy take(..., mode='clip'): a position beyond an end is that end
Clip(j, n) == IF j < 1 THEN 1 ELSE IF j > n THEN n ELSE j

\* argrelextrema(values, np.greater, order): strictly greater than the
\* value at every shift up to order on both sides
RelMax(values, order) ==
    {k \in 1..Len(values) :
        \A shift \in 1..order :
            /\ values[k] > values[Clip(k + shift, Len(values))]
            /\ values[k] > values[Clip(k - shift, Len(values))]}

RelMin(values, order) ==
    {k \in 1..Len(values) :
        \A shift \in 1..order :
            /\ values[k] < values[Clip(k + shift, Len(values))]
            /\ values[k] < values[Clip(k - shift, Len(values))]}

Highs(f) == [k \in 1..Len(f) |-> f[k].high]
Lows(f) == [k \in 1..Len(f) |-> f[k].low]

\* find_peaks_and_troughs(df)
Peaks(f) == Ascending(RelMax(Highs(f), Order))
Troughs(f) == Ascending(RelMin(Lows(f), Order))

NotFound(pattern, message) ==
    [pattern |-> pattern, found |-> FALSE, probability |-> R(0),
     message |-> <<message>>]

\* f"{probability:.2f}"
Format2f(x) == <<".2f", x>>

RMin(x, y) == IF RLt(y, x) THEN y ELSE x

\* the candidate of the highest probability, the earliest among equals:
\* the head of the list after the stable sort of lines 101, 178 and 255
Best(candidates) == SortedByProbability(candidates)[1]

\* min(df['low'].iloc[lo:hi]) over the rows lo .. hi - 1
RECURSIVE MinLow(_, _, _)
MinLow(f, lo, hi) ==
    IF lo + 1 >= hi THEN f[lo].low
    ELSE Min(f[lo].low, MinLow(f, lo + 1, hi))

\* lines 73-97: the candidates from the triple of peaks at place k on
RECURSIVE HeadAndShouldersFrom(_, _, _)
HeadAndShouldersFrom(f, peaks, k) ==
    IF k + 2 > Len(peaks) THEN <<>>
    ELSE LET p1 == peaks[k]
             p2 == peaks[k + 1]
             p3 == peaks[k + 2]
             shoulder_diff == RDiv(RAbs(RSub(R(f[p1].high), R(f[p3].high))),
                                   R(f[p1].high))
             head_height == f[p2].high - MinLow(f, p1, p3)
             pattern_length == p3 - p1
             probability ==
                 RMin(Norm(9, 10),
                      RMul(RMul(Norm(head_height, f[p2].high),
                                Norm(pattern_length, Len(f))), R(5)))
         IN  (IF /\ f[p2].high > f[p1].high
                 /\ f[p2].high > f[p3].high
                 /\ RLt(shoulder_diff, Norm(1, 10))
              THEN <<[probability |-> probability,
                      start_time |-> f[p1].time,
                      head_time |-> f[p2].time,
                      end_time |-> f[p3].time]>>
              ELSE <<>>)
             \o HeadAndShouldersFrom(f, peaks, k + 1)

\* variant: no troughs asked for
IdentifyHeadAndShouldersAnyTroughs(f) ==
    IF Len(Peaks(f)) < 3
    THEN NotFound(HEAD_AND_SHOULDERS, "Insufficient peaks and troughs")
    ELSE LET candidates == HeadAndShouldersFrom(f, Peaks(f), 1)
         IN  IF candidates # <<>>
             THEN [pattern |-> HEAD_AND_SHOULDERS, found |-> TRUE,
                   probability |-> Best(candidates).probability,
                   start_time |-> Best(candidates).start_time,
                   head_time |-> Best(candidates).head_time,
                   end_time |-> Best(candidates).end_time,
                   message |-> <<"Head and Shoulders pattern found with",
                                 Format2f(Best(candidates).probability),
                                 "probability">>]
             ELSE NotFound(HEAD_AND_SHOULDERS, "No Head and Shoulders pattern found")

\* lines 47-119, after convert_to_dataframe
IdentifyHeadAndShoulders(f) ==
    IF Len(Peaks(f)) < 3 \/ Len(Troughs(f)) < 2
    THEN NotFound(HEAD_AND_SHOULDERS, "Insufficient peaks and troughs")
    ELSE LET candidates == HeadAndShouldersFrom(f, Peaks(f), 1)
         IN  IF candidates # <<>>
             THEN [pattern |-> HEAD_AND_SHOULDERS, found |-> TRUE,
                   probability |-> Best(candidates).probability,
                   start_time |-> Best(candidates).start_time,
                   head_time |-> Best(candidates).head_time,
                   end_time |-> Best(candidates).end_time,
                   message |-> <<"Head and Shoulders pattern found with",
                                 Format2f(Best(candidates).probability),
                                 "probability">>]
             ELSE NotFound(HEAD_AND_SHOULDERS, "No Head and Shoulders pattern found")

\* the first of the positions that lies strictly between lo and hi, 0 when
\* there is none
FirstBetween(positions, lo, hi) ==
    LET between == {k \in 1..Len(positions) : lo < positions[k] /\ positions[k] < hi}
    IN  IF between = {} THEN 0
        ELSE positions[CHOOSE k \in between : \A j \in between : k <= j]

\* lines 147-174: the candidates from the pair of peaks at place k on
RECURSIVE DoubleTopFrom(_, _, _, _)
DoubleTopFrom(f, peaks, troughs, k) ==
    IF k + 1 > Len(peaks) THEN <<>>
    ELSE LET p1 == peaks[k]
             p2 == peaks[k + 1]
             peak_diff == RDiv(RAbs(RSub(R(f[p1].high), R(f[p2].high))),
                               R(f[p1].high))
             trough_idx == FirstBetween(troughs, p1, p2)
             height == f[p1].high - f[trough_idx].low
             pattern_length == p2 - p1
             probability ==
                 RMin(Norm(9, 10),
                      RMul(RMul(Norm(height, f[p1].high),
                                Norm(pattern_length, Len(f))), R(5)))
         IN  (IF RLt(peak_diff, Norm(3, 100)) /\ trough_idx # 0
              THEN <<[probability |-> probability,
                      start_time |-> f[p1].time,
                      trough_time |-> f[trough_idx].time,
                      end_time |-> f[p2].time]>>
              ELSE <<>>)
             \o DoubleTopFrom(f, peaks, troughs, k + 1)

\* lines 121-196, after convert_to_dataframe
IdentifyDoubleTop(f) ==
    IF Len(Peaks(f)) < 2 \/ Len(Troughs(f)) < 1
    THEN NotFound(DOUBLE_TOP, "Insufficient peaks and troughs")
    ELSE LET candidates == DoubleTopFrom(f, Peaks(f), Troughs(f), 1)
         IN  IF candidates # <<>>
             THEN [pattern |-> DOUBLE_TOP, found |-> TRUE,
                   probability |-> Best(candidates).probability,
                   start_time |-> Best(candidates).start_time,
                   trough_time |-> Best(candidates).trough_time,
                   end_time |-> Best(candidates).end_time,
                   message |-> <<"Double Top pattern found with",
                                 Format2f(Best(candidates).probability),
                                 "probability">>]
             ELSE NotFound(DOUBLE_TOP, "No Double Top pattern found")

\* lines 224-251: the candidates from the pair of troughs at place k on
RECURSIVE DoubleBottomFrom(_, _, _, _)
DoubleBottomFrom(f, peaks, troughs, k) ==
    IF k + 1 > Len(troughs) THEN <<>>
    ELSE LET t1 == troughs[k]
             t2 == troughs[k + 1]
             trough_diff == RDiv(RAbs(RSub(R(f[t1].low), R(f[t2].low))),
                                 R(f[t1].low))
             peak_idx == FirstBetween(peaks, t1, t2)
             height == f[peak_idx].high - f[t1].low
             pattern_length == t2 - t1
             probability ==
                 RMin(Norm(9, 10),
                      RMul(RMul(Norm(height, f[t1].low),
                                Norm(pattern_length, Len(f))), R(5)))
         IN  (IF RLt(trough_diff, Norm(3, 100)) /\ peak_idx # 0
              THEN <<[probability |-> probability,
                      start_time |-> f[t1].time,
                      peak_time |-> f[peak_idx].time,
                      end_time |-> f[t2].time]>>
              ELSE <<>>)
             \o DoubleBottomFrom(f, peaks, troughs, k + 1)

\* lines 198-273, after convert_to_dataframe
IdentifyDoubleBottom(f) ==
    IF Len(Peaks(f)) < 1 \/ Len(Troughs(f)) < 2
    THEN NotFound(DOUBLE_BOTTOM, "Insufficient peaks and troughs")
    ELSE LET candidates == DoubleBottomFrom(f, Peaks(f), Troughs(f), 1)
         IN  IF candidates # <<>>
             THEN [pattern |-> DOUBLE_BOTTOM, found |-> TRUE,
                   probability |-> Best(candidates).probability,
                   start_time |-> Best(candidates).start_time,
                   peak_time |-> Best(candidates).peak_time,
                   end_time |-> Best(candidates).end_time,
                   message |-> <<"Double Bottom pattern found with",
                                 Format2f(Best(candidates).probability),
                                 "probability">>]
             ELSE NotFound(DOUBLE_BOTTOM, "No Double Bottom pattern found")

\* positions[-3:] if len(positions) >= 3 else positions
LastThree(positions) ==
    IF Len(positions) >= 3
    THEN SubSeq(positions, Len(positions) - 2, Len(positions))
    ELSE positions

\* lines 304-312: the change of the values from the first to the last of
\* the positions, per row
Slope(values, positions) ==
    IF Len(positions) >= 2
    THEN Norm(values[positions[Len(positions)]] - values[positions[1]],
              positions[Len(positions)] - positions[1])
    ELSE R(0)

Flat(slope) == RLt(RAbs(slope), Norm(1, 100))
Falling(slope) == RLt(slope, Norm(-1, 100))
Rising_(slope) == RGt(slope, Norm(1, 100))

\* lines 318-338: the type of the triangle, <<>> when there is none
TriangleType(peak_slope, trough_slope) ==
    IF Falling(peak_slope) /\ Rising_(trough_slope) THEN SYMMETRIC_TRIANGLE
    ELSE IF Falling(peak_slope) /\ Flat(trough_slope) THEN DESCENDING_TRIANGLE
    ELSE IF Flat(peak_slope) /\ Rising_(trough_slope) THEN ASCENDING_TRIANGLE
    ELSE <<>>

Convergence(triangle_type, peak_slope, trough_slope) ==
    IF triangle_type = SYMMETRIC_TRIANGLE
    THEN RAdd(RAbs(peak_slope), RAbs(trough_slope))
    ELSE IF triangle_type = DESCENDING_TRIANGLE THEN RAbs(peak_slope)
    ELSE RAbs(trough_slope)

\* lines 275-360, after convert_to_dataframe
IdentifyTriangle(f) ==
    IF Len(Peaks(f)) < 2 \/ Len(Troughs(f)) < 2
    THEN NotFound(<<"triangle">>, "Insufficient peaks and troughs")
    ELSE LET last_peaks == LastThree(Peaks(f))
             last_troughs == LastThree(Troughs(f))
             peak_slope == Slope(Highs(f), last_peaks)
             trough_slope == Slope(Lows(f), last_troughs)
             triangle_type == TriangleType(peak_slope, trough_slope)
             touches == Min(Len(last_peaks), Len(last_troughs))
             probability ==
                 RMin(Norm(9, 10),
                      RMul(RMul(Convergence(triangle_type, peak_slope, trough_slope),
                                R(touches)), Norm(2, 10)))
             all_points == Ascending({last_peaks[k] : k \in 1..Len(last_peaks)}
                               \cup {last_troughs[k] : k \in 1..Len(last_troughs)})
         IN  IF triangle_type # <<>>
             THEN [pattern |-> triangle_type, found |-> TRUE,
                   probability |-> probability,
                   start_time |-> f[all_points[1]].time,
                   end_time |-> f[all_points[Len(all_points)]].time,
                   message |-> TitleAll(triangle_type)
                                   \o <<"pattern found with", Format2f(probability),
                                        "probability">>]
             ELSE NotFound(<<"triangle">>, "No Triangle pattern found")

\* the matchers in the order identify_patterns calls them
Matcher(k, f) ==
    CASE k = 1 -> IdentifyHeadAndShoulders(f)
      [] k = 2 -> IdentifyDoubleTop(f)
      [] k = 3 -> IdentifyDoubleBottom(f)
      [] k = 4 -> IdentifyTriangle(f)

\* lines 372-392: the matches of the matchers from the k-th on, in the
\* order of the calls
RECURSIVE FoundFrom(_, _)
FoundFrom(f, k) ==
    IF k > 4 THEN <<>>
    ELSE (IF Matcher(k, f).found THEN <<Matcher(k, f)>> ELSE <<>>)
             \o FoundFrom(f, k + 1)

\* lines 362-397; every matcher begins with convert_to_dataframe, whose
\* set_index('time') finds no such column in the frame of an empty list
IdentifyPatterns(d) ==
    IF d = <<>> THEN KeyError("time")
    ELSE SortedByProbability(FoundFrom(ConvertToDataframe(d), 1))

(***************************************************************************)
(* Inputs of identify_patterns: the short series of calculate_sma, series  *)
(* of fifteen bars with up to three summits and two dips on level ground,  *)
(* and a series that falls from an early summit and recovers to a plateau  *)
(* above it.  Every bar opens and closes at its low.                       *)
(***************************************************************************)
PriceBar(k, h, l) ==
    [time |-> 60 * k, open |-> l, high |-> h, low |-> l, close |-> l]

Summits == {100, 110, 112, 120, 121, 125}
Dips == {90, 85, 80}

Mountain(hs, ls) ==
    [k \in 1..15 |->
        PriceBar(k,
                 CASE k = 2 -> hs[1] [] k = 8 -> hs[2] [] k = 14 -> hs[3]
                   [] OTHER -> 100,
                 CASE k = 5 -> ls[1] [] k = 11 -> ls[2] [] OTHER -> 90)]

Mountains ==
    {Mountain(hs, ls) : hs \in [1..3 -> Summits], ls \in [1..2 -> Dips]}

Recovery ==
    LET highs == <<50, 1000, 900, 900, 900, 900, 900,
                   1018, 1018, 1018, 1018, 1018, 1015, 1020, 1019>>
        lows == <<40, 900, 800, 800, 800, 800, 800,
                  1015, 1015, 1015, 1015, 1015, 1010, 1015, 1015>>
    IN  [k \in 1..15 |-> PriceBar(k, highs[k], lows[k])]

PatternSeries == TimedSeries \cup Mountains \cup {Recovery}

InitPatterns ==
    /\ data \in PatternSeries
    /\ period = 0
    /\ sma = NoneValue
    /\ found = NoneValue
    /\ valid = NoneValue
    /\ GuardIdle
    /\ strategy = NoneValue
    /\ param_ranges = <<>>
    /\ given = [strategy |-> strategy, data |-> data, param_ranges |-> param_ranges]
    /\ pc \in {"identify_patterns", "identify_head_and_shoulders"}
    /\ calls = <<>>
    /\ EngineIdle
    /\ OptimizerIdle
    /\ BuilderIdle

\* lines 362-397
IdentifyPatternsCall ==
    /\ pc = "identify_patterns"
    /\ found' = IdentifyPatterns(data)
    /\ pc' = IF data = <<>> THEN "patterns_raised" ELSE "patterns_done"
    /\ UNCHANGED <<period, sma, valid, guardVars, builderVars, inputVars, engineVars,
                   results, calls, optimizerVars>>

\* lines 47-119
IdentifyHeadAndShouldersCall ==
    /\ pc = "identify_head_and_shoulders"
    /\ found' = IF data = <<>> THEN KeyError("time")
                ELSE IdentifyHeadAndShoulders(ConvertToDataframe(data))
    /\ pc' = IF data = <<>> THEN "shoulders_raised" ELSE "shoulders_done"
    /\ UNCHANGED <<period, sma, valid, guardVars, builderVars, inputVars, engineVars,
                   results, calls, optimizerVars>>

NextPatterns ==
    \/ IdentifyPatternsCall
    \/ IdentifyHeadAndShouldersCall

SpecPatterns == InitPatterns /\ [][NextPatterns]_vars

\* C17: for every OHLCV series, the series too short to hold a peak or a
\* trough included, identify_patterns succeeds and returns a list, empty
\* when nothing matches, of matches with found = true and a probability in
\* [0, 1], in the order of non-increasing probability.
C17_PatternsWellFormed ==
    (pc \in {"patterns_done", "patterns_raised"}) =>
        /\ pc = "patterns_done"
        /\ \A k \in 1..Len(found) :
              /\ found[k].found = TRUE
              /\ RGe(found[k].probability, R(0))
              /\ RLe(found[k].probability, R(1))
        /\ \A k \in 1..(Len(found) - 1) :
              RGe(found[k].probability, found[k + 1].probability)

(***************************************************************************)
(* Entries of backtest_strategy, read from the frame the loop leaves.      *)
(***************************************************************************)
\* the position held when bar k is reached: that of the last row before k
\* that records an entry or an exit
RECURSIVE HeldBefore(_, _)
HeldBefore(f, k) ==
    IF k <= 1 THEN 0
    ELSE IF NotNa(f[k - 1].entry_price) THEN f[k - 1].position
    ELSE IF NotNa(f[k - 1].exit_price) THEN 0
    ELSE HeldBefore(f, k - 1)

FlatAfterExit(f, k) == HeldBefore(f, k) = 0 \/ NotNa(f[k].exit_price)

BothDefined(f, k) == k >= 2 /\ NotNa(f[k - 1].ma) /\ NotNa(f[k].ma)

BullishFlip(f, k) == f[k - 1].signal = -1 /\ f[k].signal = 1
BearishFlip(f, k) == f[k - 1].signal = 1 /\ f[k].signal = -1

LongOpenedAt(f, k, risk) ==
    /\ f[k].position = 1
    /\ f[k].entry_price = R(f[k].close)
    /\ f[k].stop_loss =
          RMul(R(f[k].close), RSub(R(1), RDiv(R(risk.stop_loss_percent), R(100))))
    /\ f[k].take_profit =
          RMul(R(f[k].close), RAdd(R(1), RDiv(R(risk.take_profit_percent), R(100))))

ShortOpenedAt(f, k, risk) ==
    /\ f[k].position = -1
    /\ f[k].entry_price = R(f[k].close)
    /\ f[k].stop_loss =
          RMul(R(f[k].close), RAdd(R(1), RDiv(R(risk.stop_loss_percent), R(100))))
    /\ f[k].take_profit =
          RMul(R(f[k].close), RSub(R(1), RDiv(R(risk.take_profit_percent), R(100))))

\* C18: at every bar whose signal and whose predecessor's signal are both
\* defined, a bearish-to-bullish flip while the engine is flat (after the
\* bar's exit processing) opens a long at the bar's close with the stop
\* stop_loss_percent below and the target take_profit_percent above it, a
\* bullish-to-bearish flip while flat opens a short with the stop above
\* and the target below, and a bar without such a flip opens nothing.
C18_EntryAtEveryFlip ==
    (pc = "done" /\ ~TooShort(data) /\ Truthy(ma_period)) =>
        \A k \in 2..Len(df) :
            BothDefined(df, k) =>
                /\ (FlatAfterExit(df, k) /\ BullishFlip(df, k))
                       => LongOpenedAt(df, k, strategy.risk_management)
                /\ (FlatAfterExit(df, k) /\ BearishFlip(df, k))
                       => ShortOpenedAt(df, k, strategy.risk_management)
                /\ ~(BullishFlip(df, k) \/ BearishFlip(df, k))
                       => IsNaN(df[k].entry_price)

(***************************************************************************)
(* Exits of backtest_strategy, stated on the bar the loop is at and the    *)
(* stop and the target the open position carries.                          *)
(***************************************************************************)
StopTouched ==
    IF position = 1 THEN RLe(R(df[i].low), stop_loss)
    ELSE RGe(R(df[i].high), stop_loss)

TargetTouched ==
    IF position = 1 THEN RGe(R(df[i].high), take_profit)
    ELSE RLe(R(df[i].low), take_profit)

FlippedAgainst ==
    IF position = 1 THEN BearishFlip(df, i) ELSE BullishFlip(df, i)

\* C19: at each bar an open position is tested for exit in a fixed order:
\* the stop first (long: low <= stop_loss, short: high >= stop_loss), then
\* the target (long: high >= take_profit, short: low <= take_profit), then
\* a signal flip against the position.  The exit price is the stop if the
\* stop triggered, the target if the target triggered and the bar's close
\* if only the flip did; a bar that touches both stop and target exits at
\* the stop, and a bar that triggers none leaves the position open.
C19_ExitPriority ==
    [][(BarProcessed /\ position # 0) =>
        /\ StopTouched => df'[i].exit_price = stop_loss
        /\ (~StopTouched /\ TargetTouched) => df'[i].exit_price = take_profit
        /\ (~StopTouched /\ ~TargetTouched /\ FlippedAgainst)
               => df'[i].exit_price = R(df[i].close)
        /\ (~StopTouched /\ ~TargetTouched /\ ~FlippedAgainst)
               => (IsNaN(df'[i].exit_price) /\ position' = position)]_vars

\* C19 witness: the bar just processed touched both the stop and the target
\* of a long position, and the position was closed at the stop
C19_Witness ==
    /\ pc = "loop"
    /\ i >= 2
    /\ position = 0
    /\ RLt(stop_loss, take_profit)
    /\ RLe(R(df[i - 1].low), stop_loss)
    /\ RGe(R(df[i - 1].high), take_profit)
    /\ df[i - 1].exit_price = stop_loss

(***************************************************************************)
(* Two calls of backtest_strategy on the same series, with strategies that *)
(* share their first moving-average period and their risk settings or      *)
(* differ in them.                                                         *)
(***************************************************************************)
AlikeStrategies ==
    {MkStrategy("sma", <<<<SMA_20_period, 2>>>>, Risk(50, 50)),
     [MkStrategy("sma and more",
                 <<<<RSI_14_period, 3>>, <<SMA_20_period, 2>>, <<EMA_10_period, 3>>>>,
                 Risk(50, 50))
        EXCEPT !.entry_rules = <<>>,
               !.exit_rules = <<"sell at the close of the day">>],
     MkStrategy("sma tight", <<<<SMA_20_period, 2>>>>, Risk(25, 50)),
     MkStrategy("ema first",
                <<<<RSI_14_period, 2>>, <<EMA_10_period, 3>>, <<SMA_20_period, 2>>>>,
                Risk(25, 50)),
     [MkStrategy("ema only", <<<<EMA_10_period, 3>>, <<SMA_20_note, 2>>>>, Risk(25, 50))
        EXCEPT !.entry_rules = <<"buy on a double bottom">>,
               !.exit_rules = <<>>]}

InitAlike ==
    /\ strategy \in AlikeStrategies
    /\ data \in SeriesOver(TwiceShapes)
    /\ param_ranges = <<>>
    /\ given = [strategy |-> strategy, data |-> data, param_ranges |-> param_ranges]
    /\ pc = "idle"
    /\ calls = <<>>
    /\ EngineIdle
    /\ OptimizerIdle
    /\ BuilderIdle
    /\ LibraryIdle

\* the caller takes the result and backtests another strategy on the series
CallAlike ==
    /\ pc = "done"
    /\ calls = <<>>
    /\ calls' = Append(calls, [strategy |-> strategy, data |-> data,
                               results |-> results])
    /\ \E s \in AlikeStrategies :
          /\ strategy' = s
          /\ given' = [given EXCEPT !.strategy = s]
    /\ pc' = "idle"
    /\ UNCHANGED <<builderVars, libraryVars, data, param_ranges, engineVars, results,
                   optimizerVars>>

NextAlike ==
    \/ BacktestReject
    \/ BacktestBegin
    \/ BacktestBar
    \/ BacktestFinish
    \/ CallAlike

SpecAlike == InitAlike /\ [][NextAlike]_vars

\* the value of the first parameter, in parameter order, whose name begins
\* with SMA_ or EMA_ and ends with _period; None when there is none
RECURSIVE FirstPeriod(_)
FirstPeriod(params) ==
    IF params = <<>> THEN None
    ELSE IF /\ Head(params)[1][1] \in {"SMA", "EMA"}
            /\ Head(params)[1][Len(Head(params)[1])] = "period"
         THEN Head(params)[2]
         ELSE FirstPeriod(Tail(params))

Alike(s, t) ==
    /\ FirstPeriod(s.parameters) # None
    /\ FirstPeriod(s.parameters) = FirstPeriod(t.parameters)
    /\ s.risk_management = t.risk_management

\* the trades and the metrics of a result: all of it but the strategy's name
Outcome(r) ==
    IF IsBacktestResult(r) THEN [r EXCEPT !.strategy_name = <<>>] ELSE r

\* C20: only the first moving-average period parameter, in parameter
\* order, drives the simulation: two strategies that agree on it and on
\* risk_management give the same trades and the same metrics on the same
\* series, whatever their other parameters, entry_rules and exit_rules are.
C20_OnlyFirstPeriod ==
    pc = "done" =>
        \A k \in 1..Len(calls) :
            (Alike(calls[k].strategy, strategy) /\ calls[k].data = data)
                => Outcome(calls[k].results) = Outcome(results)

\* C20 witness: two strategies with other parameters and other rules, the
\* same first period and the same risk settings both traded on a series,
\* with the same outcome
C20_Witness ==
    /\ pc = "done"
    /\ Len(calls) = 1
    /\ Alike(calls[1].strategy, strategy)
    /\ calls[1].strategy.parameters # strategy.parameters
    /\ calls[1].strategy.entry_rules # strategy.entry_rules
    /\ calls[1].strategy.exit_rules # strategy.exit_rules
    /\ IsBacktestResult(results)
    /\ results.total_trades > 0
    /\ Outcome(calls[1].results) = Outcome(results)

(***************************************************************************)
(* The metrics of a Backtest Result, recomputed from its list of trades.   *)
(***************************************************************************)
Percents(r) == [k \in 1..Len(r.trades) |-> r.trades[k].profit_loss_percent]

RECURSIVE SumWhere(_, _, _)
SumWhere(ps, k, positive) ==
    IF k > Len(ps) THEN R(0)
    ELSE RAdd(IF RGt(ps[k], R(0)) = positive THEN ps[k] ELSE R(0),
              SumWhere(ps, k + 1, positive))

Traded == pc = "done" /\ IsBacktestResult(results) /\ results.total_trades >= 1

\* C21: in every Backtest Result with at least one trade, profit_factor is
\* the sum of the positive trade percents divided by the absolute value of
\* the sum of the negative ones, and infinite exactly when there are no
\* losses and at least one winning trade; winning_trades + losing_trades
\* is total_trades and win_rate is winning_trades / total_trades.
C21_ProfitFactor ==
    Traded =>
        /\ (results.profit_factor = Inf)
               <=> (results.losing_trades = 0 /\ results.winning_trades >= 1)
        /\ results.profit_factor # Inf =>
               results.profit_factor =
                   RDiv(SumWhere(Percents(results), 1, TRUE),
                        RAbs(SumWhere(Percents(results), 1, FALSE)))
        /\ results.winning_trades + results.losing_trades = results.total_trades
        /\ results.win_rate = Norm(results.winning_trades, results.total_trades)

\* the rows of the frame at which a position was closed, in order
ExitRows(f) == {k \in 1..Len(f) : NotNa(f[k].exit_price)}

\* the row at which the position closed at row k was opened: the last row
\* before k that records an entry
EntryRowOf(f, k) ==
    CHOOSE j \in 1..(k - 1) :
        /\ NotNa(f[j].entry_price)
        /\ \A m \in (j + 1)..(k - 1) : IsNaN(f[m].entry_price)

\* the percent return of the position closed at row k
PercentOf(f, k) ==
    LET entry == f[EntryRowOf(f, k)].entry_price
        exit == f[k].exit_price
    IN  IF f[EntryRowOf(f, k)].position = 1
        THEN RMul(RSub(RDiv(exit, entry), R(1)), R(100))
        ELSE RMul(RSub(RDiv(entry, exit), R(1)), R(100))

\* the capital after the exits at the rows up to k, each compounding the
\* capital before it
RECURSIVE Compounded(_, _)
Compounded(f, k) ==
    IF k = 0 THEN R(InitialCapital)
    ELSE IF k \in ExitRows(f)
         THEN RMul(Compounded(f, k - 1),
                   RAdd(R(1), RDiv(PercentOf(f, k), R(100))))
         ELSE Compounded(f, k - 1)

\* C22: final_capital is the initial capital of 10,000 compounded by every
\* closed trade's percent return in the order of the exits (the equity
\* after a trade is the equity before it times 1 + percent/100), where a
\* long trade's percent is (exit/entry - 1)*100 and a short trade's is
\* (entry/exit - 1)*100.
C22_FinalCapital ==
    (pc = "done" /\ IsBacktestResult(results)) =>
        /\ results.final_capital = Compounded(df, Len(df))
        /\ results.total_trades = Cardinality(ExitRows(df))
        /\ \A k \in ExitRows(df) : df[k].trade_result = PercentOf(df, k)

\* C22 witness: a long and a short position were closed, both at another
\* price than their entry, and the capital is what compounding gives and
\* not what adding the two percents of 10,000 gives
C22_Witness ==
    /\ pc = "done"
    /\ IsBacktestResult(results)
    /\ \E j, k \in ExitRows(df) :
          /\ df[EntryRowOf(df, j)].position = 1
          /\ df[EntryRowOf(df, k)].position = -1
          /\ PercentOf(df, j) # R(0)
          /\ PercentOf(df, k) # R(0)
    /\ results.final_capital = Compounded(df, Len(df))
    /\ results.final_capital #
          RAdd(R(InitialCapital),
               RDiv(RMul(R(InitialCapital),
                         RAdd(SumWhere(Percents(results), 1, TRUE),
                              SumWhere(Percents(results), 1, FALSE))), R(100)))

\* the percent by which the capital after row k lies below the capital
\* after the earlier row j
DeclinePercent(f, j, k) ==
    RMul(RDiv(RSub(Compounded(f, j), Compounded(f, k)), Compounded(f, j)), R(100))

\* the largest such percent over the equity curve; 0 when it never declines
LargestDecline(f) ==
    LET later == {DeclinePercent(f, pair[1], pair[2]) :
                 pair \in {q \in (0..Len(f)) \X (0..Len(f)) : q[1] <= q[2]}}
    IN  CHOOSE d \in later : \A other \in later : RGe(d, other)

\* C23: max_drawdown_percent is the largest percent decline from a running
\* equity peak to a later equity value anywhere along the equity curve,
\* for every sequence of trade returns.
C23_MaxDrawdownPercent ==
    (pc = "done" /\ IsBacktestResult(results)) =>
        results.max_drawdown_percent = LargestDecline(df)

(***************************************************************************)
(* Head and shoulders, stated on the bars of the series.                   *)
(***************************************************************************)
\* the bars up to 5 places from bar k, on both sides
Near(d, k) == {j \in 1..Len(d) : j # k /\ j >= k - 5 /\ j <= k + 5}

\* a bar other than the first and the last whose high is strictly greater
\* than the highs of the bars near it / whose low is strictly less
IsPeak(d, k) ==
    /\ 1 < k /\ k < Len(d)
    /\ \A j \in Near(d, k) : d[k].high > d[j].high

IsTrough(d, k) ==
    /\ 1 < k /\ k < Len(d)
    /\ \A j \in Near(d, k) : d[k].low < d[j].low

PeakBars(d) == {k \in 1..Len(d) : IsPeak(d, k)}
TroughBars(d) == {k \in 1..Len(d) : IsTrough(d, k)}

\* three consecutive peaks, the middle one higher than both outer ones,
\* the outer ones less than 10% of the first one's high apart
ShouldersAt(d, a, b, c) ==
    /\ a < b /\ b < c
    /\ PeakBars(d) \cap (a..c) = {a, b, c}
    /\ d[b].high > d[a].high
    /\ d[b].high > d[c].high
    /\ 10 * Abs(d[a].high - d[c].high) < d[a].high

HasShoulders(d) ==
    \E a, b, c \in PeakBars(d) : ShouldersAt(d, a, b, c)

Reported == pc = "shoulders_done" /\ found.found

\* C24 as stated: identify_head_and_shoulders reports found = true exactly
\* when the series has at least 3 peaks (bars whose high is strictly
\* greater than the highs of the 5 bars on each side) and some triple of
\* consecutive peaks has a middle peak higher than both outer ones with
\* the outer ones less than 10% of the first one's high apart, and nothing
\* else is required.
C24_FoundIffShoulders ==
    (pc \in {"shoulders_done", "shoulders_raised"}) =>
        (Reported <=> (Cardinality(PeakBars(data)) >= 3 /\ HasShoulders(data)))

\* C24 as amended: the same, where the series must also have at least 2
\* troughs (bars whose low is strictly less than the lows of the bars up
\* to 5 places away on each side), and where the first and the last bar
\* are neither peak nor trough and a bar less than 5 places from an end is
\* compared with the bars there are.
C24_FoundIffShouldersAndTroughs ==
    (pc \in {"shoulders_done", "shoulders_raised"}) =>
        (Reported <=> /\ Cardinality(PeakBars(data)) >= 3
                      /\ Cardinality(TroughBars(data)) >= 2
                      /\ HasShoulders(data))

\* C24 witness: a head between two shoulders of equal height was reported
\* on a series with three peaks and two troughs, the first peak at the
\* second bar
C24_Witness ==
    /\ Reported
    /\ Cardinality(PeakBars(data)) = 3
    /\ Cardinality(TroughBars(data)) = 2
    /\ IsPeak(data, 2)
    /\ HasShoulders(data)

\* C25: every entry of the trades list describes the position that was
\* closed: its position is 'long' exactly when that position was long and
\* 'short' exactly when it was short, its entry_price is the close of the
\* bar at which that position was opened, and its exit_price and
\* profit_loss_percent are those of that exit.
C25_TradeDescribesClosed ==
    (pc = "done" /\ IsBacktestResult(results)) =>
        /\ Len(results.trades) = Cardinality(ExitRows(df))
        /\ \A n \in 1..Len(results.trades) :
              LET k == Ascending(ExitRows(df))[n]
                  opened == EntryRowOf(df, k)
                  trade == results.trades[n]
              IN  /\ trade.position = "long" <=> df[opened].position = 1
                  /\ trade.position = "short" <=> df[opened].position = -1
                  /\ trade.entry_price = R(df[opened].close)
                  /\ trade.exit_price = df[k].exit_price
                  /\ trade.profit_loss_percent = df[k].trade_result

\* the exit at row k was at the stop / at the target of the position closed
StoppedAt(f, k) == f[k].exit_price = f[EntryRowOf(f, k)].stop_loss
TargetAt(f, k) == f[k].exit_price = f[EntryRowOf(f, k)].take_profit

C27_NoPositionAgainstSignal ==
    [][BarProcessed =>
        /\ position' = 1 => df[i].signal # -1
        /\ position' = -1 => df[i].signal # 1]_vars

\* the open position is closed at the bar the loop is at
ExitTaken == position # 0 /\ (StopTouched \/ TargetTouched \/ FlippedAgainst)

\* the frame without the entry of the position that is still open
Unopened(f) ==
    LET opened == CHOOSE j \in 1..Len(f) :
                      /\ NotNa(f[j].entry_price)
                      /\ \A m \in (j + 1)..Len(f) : IsNaN(f[m].entry_price)
    IN  [f EXCEPT ![opened].position = 0,
                  ![opened].entry_price = NaN,
                  ![opened].stop_loss = NaN,
                  ![opened].take_profit = NaN]

\* the metrics of a result: all of it but the list of trades
Numbers(r) == [r EXCEPT !.trades = <<>>]

\* C28: a position still open after the last bar yields no trade:
\* total_trades is the number of exits taken during the run, at most one
\* per bar, and the open position changes neither final_capital nor any
\* other metric.
C28_OpenPositionNoTrade ==
    /\ [][BarProcessed =>
            /\ ExitTaken <=> i \in ExitRows(df')
            /\ ExitRows(df') \ {i} = ExitRows(df)]_vars
    /\ []((pc = "done" /\ IsBacktestResult(results)) =>
            /\ results.total_trades = Cardinality(ExitRows(df))
            /\ results.total_trades = Len(results.trades)
            /\ position # 0 =>
                  /\ results.final_capital = Compounded(Unopened(df), Len(df))
                  /\ Numbers(results) = Numbers(Metrics(strategy, Unopened(df))))

\* C28 witness: a run ended with a position open that was opened at a bar
\* after the last exit, and with a trade made before
C28_Witness ==
    /\ pc = "done"
    /\ IsBacktestResult(results)
    /\ position # 0
    /\ results.total_trades >= 1
    /\ results.final_capital # R(InitialCapital)
    /\ \E j \in 1..Len(df) :
          /\ NotNa(df[j].entry_price)
          /\ IsNaN(df[j].exit_price)
          /\ \A k \in ExitRows(df) : k < j

\* C29: every series that validate_data accepts satisfies the invariants
\* of the OHLCV bar: in each bar low <= min(open, close),
\* high >= max(open, close) and low <= high, and the times are unique and
\* strictly increasing along the series.
C29_AcceptedSatisfiesInvariants ==
    (pc = "data_validated" /\ valid.is_valid) =>
        /\ \A k \in 1..Len(data) :
              /\ WellFormedBar(data[k])
              /\ data[k].low.v <= data[k].high.v
        /\ \A j, k \in 1..Len(data) : j < k => data[j].time.v < data[k].time.v

(***************************************************************************)
(* safe_execute and the exceptions of error_handling.py.  A Python value   *)
(* that may be a string or a dict is [str |-> s] or [dict |-> pairs]; an   *)
(* exception in flight is a record with the field raised.                  *)
(***************************************************************************)
Text(s) == [str |-> s]
Dict(pairs) == [dict |-> pairs]

ErrorClasses ==
    {"TradingAssistantError", "DataError", "AnalysisError", "StrategyError",
     "BacktestError", "OptimizationError", "APIError", "ValidationError"}

\* the code each subclass passes to the base constructor
CodeOf(class) ==
    CASE class = "DataError" -> "DATA_ERROR"
      [] class = "AnalysisError" -> "ANALYSIS_ERROR"
      [] class = "StrategyError" -> "STRATEGY_ERROR"
      [] class = "BacktestError" -> "BACKTEST_ERROR"
      [] class = "OptimizationError" -> "OPTIMIZATION_ERROR"
      [] class = "APIError" -> "API_ERROR"
      [] class = "ValidationError" -> "VALIDATION_ERROR"
      [] OTHER -> "GENERAL_ERROR"

\* TradingAssistantError.__init__(message, error_code, details)
TradingAssistantError(class, message, error_code, details) ==
    [raised |-> class, message |-> message, error_code |-> error_code,
     details |-> IF details = NoneValue THEN Dict(<<>>) ELSE details,
     timestamp |-> IsoFormat(now)]

\* class(a, b), a call with two positional arguments: the base class takes
\* them as message and error_code, a subclass as message and details
Construct(class, a, b) ==
    IF class = "TradingAssistantError"
    THEN TradingAssistantError(class, a, b, NoneValue)
    ELSE TradingAssistantError(class, a, Text(CodeOf(class)), b)

\* the wrapped functions: risky_function(a, b) of the example, and
\* find_peaks_and_troughs(df), whose frame v is pd.DataFrame(), without
\* columns, when it is empty
Returns(v) == [returned |-> v]
Raising(type, text) == [raised |-> type, text |-> text]

Apply(f, a) ==
    CASE f = "risky_function" ->
            IF a[2].v = 0 THEN Raising("ValueError", "Division by zero")
            ELSE Returns(Norm(a[1].v, a[2].v))
      [] f = "find_peaks_and_troughs" ->
            IF Len(a[1].v) = 0 THEN Raising("KeyError", "'high'")
            ELSE Returns(<<Peaks(a[1].v), Troughs(a[1].v)>>)

\* json.dumps takes numbers, strings and None, not a DataFrame
Serializable(a) ==
    \A k \in 1..Len(a) : a[k].type \in {"int", "float", "str", "NoneType"}

DataFrame_(v) == [type |-> "DataFrame", v |-> v]

Calls ==
    {<<"risky_function", <<Int_(a), Int_(b)>>>> : a \in {0, 10, 12}, b \in {0, 2, 3}}
    \cup {<<"find_peaks_and_troughs", <<DataFrame_(v)>>>> :
            v \in {<<>>, ConvertToDataframe(Recovery)}}

InitSafe ==
    /\ \E c \in Calls : func = c[1] /\ args = c[2]
    /\ error_class \in ErrorClasses
    /\ outcome = NoneValue
    /\ log = <<>>
    /\ period = 0
    /\ sma = NoneValue
    /\ found = NoneValue
    /\ valid = NoneValue
    /\ data = <<>>
    /\ strategy = NoneValue
    /\ param_ranges = <<>>
    /\ given = [strategy |-> strategy, data |-> data, param_ranges |-> param_ranges]
    /\ pc = "safe_execute"
    /\ calls = <<>>
    /\ EngineIdle
    /\ OptimizerIdle
    /\ patterns = <<>>
    /\ indicators = <<>>
    /\ now \in {0, 1}
    /\ created = NoneValue
    /\ builds = <<>>
    /\ verdict = NoneValue

\* lines 248-268, with log_error (lines 71-94) in the handler
SafeExecute ==
    /\ pc = "safe_execute"
    /\ \E r \in {Apply(func, args)} :
          IF "returned" \in DOMAIN r
          THEN /\ outcome' = r
               /\ pc' = "returned"
               /\ UNCHANGED log
          ELSE IF ~Serializable(args)
          THEN /\ outcome' = Raising("TypeError", "Object is not JSON serializable")
               /\ pc' = "raised"
               /\ UNCHANGED log
          ELSE /\ log' = Append(log, [error_type |-> r.raised,
                                      error_message |-> r.text])
               /\ outcome' = Construct(error_class, r.text,
                                       Dict(<<<<"original_error", r.text>>>>))
               /\ pc' = "raised"
    /\ UNCHANGED <<func, args, error_class, period, sma, found, valid, builderVars,
                   inputVars, engineVars, results, calls, optimizerVars>>

NextSafe == SafeExecute

SpecSafe == InitSafe /\ [][NextSafe]_vars

\* C30: safe_execute returns the wrapped function's value when it completes
\* normally; when the function raises, safe_execute raises an error of the
\* requested error_class (TradingAssistantError by default) whose message
\* is the original error text, whose error_code is that class's code
\* (GENERAL_ERROR for the default class) and whose details contain the
\* original error.
C30_SafeExecute ==
    (pc \in {"returned", "raised"}) =>
        \E r \in {Apply(func, args)} :
            IF "returned" \in DOMAIN r
            THEN pc = "returned" /\ outcome.returned = r.returned
            ELSE /\ pc = "raised"
                 /\ outcome.raised = error_class
                 /\ outcome.message = r.text
                 /\ outcome.error_code = Text(CodeOf(error_class))
                 /\ \E k \in 1..Len(outcome.details.dict) :
                       outcome.details.dict[k][2] = r.text

====
